---- MODULE Spec2Model ----
(***************************************************************************)
(* Model of visyerres_sgdf_woob/mshtml.py: the Microsoft Ajax delta        *)
(* response parser (MicrosoftAjaxResponse.fromstream) and the page that    *)
(* applies it (MSHTMLPage).                                                *)
(*                                                                         *)
(* Strings of the program are sequences of one-character strings, so that  *)
(* find, split, slicing and length are those of the code.  An optional     *)
(* value (Python None or a value) is a sequence of length 0 or 1.          *)
(***************************************************************************)
EXTENDS Integers, Sequences, FiniteSets, TLC

VARIABLES
    token,      \* SpecNum: the argument of parseinvariantnumber
    number,     \* SpecNum: <<>> before the call, <<outcome>> after it
    input,      \* SpecParse: the records and the tail the stream text is made of
    ajax,       \* SpecParse: <<>> before fromtext, <<outcome>> after it
    doc,        \* Spec: the document of the page (its root element)
    formid,     \* Spec: _formid, <<>> when the page names no form
    scriptmanagerid, \* Spec: _scriptmanagerid, <<>> when it names none
    call,       \* Spec: the last call on the page and how it ended
    steps,      \* Spec: the number of calls made on the page
    browser     \* SpecLogin: <<>>, or the credentials of the browser in a
                \* one-element sequence; SpecApi: the browser of the API and
                \* the clock it reads, in a one-element sequence

vars == <<token, number, input, ajax, doc, formid, scriptmanagerid, call,
          steps, browser>>

None == <<>>
Some(v) == <<v>>

Min(a, b) == IF a < b THEN a ELSE b
Max(a, b) == IF a < b THEN b ELSE a

(***************************************************************************)
(* Python string primitives.                                               *)
(***************************************************************************)

\* s[a:b] with 0 <= a, 0 <= b
PySlice(s, a, b) == SubSeq(s, a + 1, Min(b, Len(s)))

\* s[a:]
PyFrom(s, a) == SubSeq(s, a + 1, Len(s))

\* s.find(c, start): the 0-based offset of the first c at or after start, or -1
PyFind(s, c, start) ==
    LET hits == {i \in (start + 1)..Len(s) : s[i] = c}
    IN  IF hits = {} THEN -1
        ELSE (CHOOSE i \in hits : \A j \in hits : i <= j) - 1

Whitespace == {" ", "\t", "\n", "\r", "\f"}

\* str.strip()
Strip(s) ==
    LET keep == {i \in 1..Len(s) : s[i] \notin Whitespace}
    IN  IF keep = {} THEN <<>>
        ELSE SubSeq(s, CHOOSE i \in keep : \A j \in keep : i <= j,
                       CHOOSE i \in keep : \A j \in keep : i >= j)

LowerCase == <<"a","b","c","d","e","f","g","h","i","j","k","l","m",
               "n","o","p","q","r","s","t","u","v","w","x","y","z">>
UpperCase == <<"A","B","C","D","E","F","G","H","I","J","K","L","M",
               "N","O","P","Q","R","S","T","U","V","W","X","Y","Z">>

Lower(c) ==
    IF \E i \in 1..26 : UpperCase[i] = c
    THEN LowerCase[CHOOSE i \in 1..26 : UpperCase[i] = c]
    ELSE c

LowerStr(s) == [i \in 1..Len(s) |-> Lower(s[i])]

DecDigits == <<"0","1","2","3","4","5","6","7","8","9">>
HexDigits == DecDigits \o <<"a","b","c","d","e","f">>

\* the digits of a base, in either case
IsDigit(c, base) == \E i \in 1..base : HexDigits[i] = Lower(c)
DigitValue(c) == (CHOOSE i \in 1..16 : HexDigits[i] = Lower(c)) - 1

\* a run of digits in which single underscores may separate two digits
DigitPart(s, base) ==
    /\ Len(s) > 0
    /\ IsDigit(s[1], base)
    /\ IsDigit(s[Len(s)], base)
    /\ \A i \in 1..Len(s) : IsDigit(s[i], base) \/ s[i] = "_"
    /\ \A i \in 1..(Len(s) - 1) : ~(s[i] = "_" /\ s[i + 1] = "_")

RECURSIVE DigitsValue(_, _, _)
DigitsValue(s, base, acc) ==
    IF s = <<>> THEN acc
    ELSE IF s[1] = "_" THEN DigitsValue(Tail(s), base, acc)
    ELSE DigitsValue(Tail(s), base, acc * base + DigitValue(s[1]))

DigitCount(s) == Cardinality({i \in 1..Len(s) : s[i] # "_"})

HasSign(s) == s # <<>> /\ s[1] \in {"+", "-"}
Unsigned(s) == IF HasSign(s) THEN Tail(s) ELSE s
IsNegative(s) == s # <<>> /\ s[1] = "-"

\* the digits of an int literal without its sign: in base 16 a 0x prefix, and
\* one underscore after it, are skipped
IntDigits(body, base) ==
    IF base = 16 /\ Len(body) >= 2 /\ body[1] = "0" /\ Lower(body[2]) = "x"
    THEN IF Len(body) >= 3 /\ body[3] = "_" THEN PyFrom(body, 3)
         ELSE PyFrom(body, 2)
    ELSE body

IntOfDigits(neg, digits, base) ==
    IF DigitPart(digits, base)
    THEN [ok |-> TRUE,
          val |-> IF neg THEN 0 - DigitsValue(digits, base, 0)
                  ELSE DigitsValue(digits, base, 0)]
    ELSE [ok |-> FALSE, val |-> 0]

IntOfStripped(s, base) ==
    IntOfDigits(IsNegative(s), IntDigits(Unsigned(s), base), base)

\* int(s, base) for base 10 or 16: [ok |-> FALSE] stands for ValueError
PyInt(s0, base) == IntOfStripped(Strip(s0), base)

(***************************************************************************)
(* Numbers.  A finite number is neg, m, e: (-1)^neg * m * 10^e with m not  *)
(* a multiple of 10 unless it is 0; py is the Python type, int or float.   *)
(***************************************************************************)

RECURSIVE Normalise(_, _)
Normalise(m, e) ==
    IF m = 0 THEN [m |-> 0, e |-> 0]
    ELSE IF m % 10 = 0 THEN Normalise(m \div 10, e + 1)
    ELSE [m |-> m, e |-> e]

RECURSIVE Digits10(_)
Digits10(m) == IF m < 10 THEN 1 ELSE 1 + Digits10(m \div 10)

Finite(neg, m, e, py) ==
    LET n == Normalise(m, e)
    IN  [cls |-> "fin", neg |-> neg /\ n.m # 0, m |-> n.m, e |-> n.e, py |-> py]
Infinity(neg) == [cls |-> "inf", neg |-> neg, m |-> 0, e |-> 0, py |-> "float"]
NaN == [cls |-> "nan", neg |-> FALSE, m |-> 0, e |-> 0, py |-> "float"]

\* a decimal literal rounded to a double: beyond the decimal orders of
\* magnitude of a double (308 and -324) it gives infinity or zero
Rounded(neg, m, e) ==
    LET n == Normalise(m, e)
        order == Digits10(n.m) + n.e - 1
    IN  IF n.m # 0 /\ order > 308 THEN Infinity(neg)
        ELSE IF n.m # 0 /\ order < -324 THEN Finite(neg, 0, 0, "float")
        ELSE Finite(neg, n.m, n.e, "float")

FindOrEnd(s, c) == IF PyFind(s, c, 0) < 0 THEN Len(s) ELSE PyFind(s, c, 0)

\* the offset of the exponent marker of a float literal, or its length
ExpPos(body) == Min(FindOrEnd(body, "e"), FindOrEnd(body, "E"))

\* the digits before and after the point of a mantissa
IntegerPart(mant) == PySlice(mant, 0, FindOrEnd(mant, "."))
FractionPart(mant) == PyFrom(mant, FindOrEnd(mant, ".") + 1)

MantissaOk(mant) ==
    IF PyFind(mant, ".", 0) < 0 THEN DigitPart(mant, 10)
    ELSE /\ IntegerPart(mant) = <<>> \/ DigitPart(IntegerPart(mant), 10)
         /\ FractionPart(mant) = <<>> \/ DigitPart(FractionPart(mant), 10)
         /\ ~(IntegerPart(mant) = <<>> /\ FractionPart(mant) = <<>>)

ExponentOk(expo, hasExp) == ~hasExp \/ DigitPart(Unsigned(expo), 10)

ExponentValue(expo, hasExp) ==
    IF ~hasExp THEN 0
    ELSE IF IsNegative(expo) THEN 0 - DigitsValue(Unsigned(expo), 10, 0)
    ELSE DigitsValue(Unsigned(expo), 10, 0)

FloatOfParts(neg, mant, expo, hasExp) ==
    IF MantissaOk(mant) /\ ExponentOk(expo, hasExp)
    THEN [ok |-> TRUE,
          val |-> Rounded(neg,
                          DigitsValue(IntegerPart(mant) \o FractionPart(mant), 10, 0),
                          ExponentValue(expo, hasExp) - DigitCount(FractionPart(mant)))]
    ELSE [ok |-> FALSE, val |-> NaN]

FloatOfBody(neg, body) ==
    IF LowerStr(body) \in {<<"i","n","f">>, <<"i","n","f","i","n","i","t","y">>}
    THEN [ok |-> TRUE, val |-> Infinity(neg)]
    ELSE IF LowerStr(body) = <<"n","a","n">>
    THEN [ok |-> TRUE, val |-> NaN]
    ELSE FloatOfParts(neg, PySlice(body, 0, ExpPos(body)),
                      PyFrom(body, ExpPos(body) + 1), ExpPos(body) < Len(body))

FloatOfStripped(s) == FloatOfBody(IsNegative(s), Unsigned(s))

\* float(s): [ok |-> FALSE] stands for ValueError
PyFloat(s0) == FloatOfStripped(Strip(s0))

RECURSIVE Pow10(_)
Pow10(k) == IF k = 0 THEN 1 ELSE 10 * Pow10(k - 1)

\* x >= 4 for a float x (m stays below 4 * 10^9)
AtLeast4(x) ==
    CASE x.cls = "nan" -> FALSE
      [] x.cls = "inf" -> ~x.neg
      [] OTHER -> /\ ~x.neg
                  /\ x.m > 0
                  /\ \/ x.e >= 1
                     \/ x.e = 0 /\ x.m >= 4
                     \/ x.e < 0 /\ x.e >= -8 /\ x.m >= 4 * Pow10(0 - x.e)

(***************************************************************************)
(* parseinvariantnumber: [raises |-> "", val |-> the number] or the        *)
(* exception that escapes it.                                              *)
(***************************************************************************)

Returns(v) == [raises |-> "", val |-> v]
Raises(exc) == [raises |-> exc, val |-> NaN]

\* x = int(x) if x == int(x): int() of an infinity or of a NaN raises
IntegerIfIntegral(x) ==
    CASE x.cls = "inf" -> Raises("OverflowError")
      [] x.cls = "nan" -> Raises("ValueError")
      [] OTHER -> IF x.e >= 0 THEN Returns(Finite(x.neg, x.m, x.e, "int"))
                  ELSE Returns(x)

\* the float rule: float(x), not-a-number on ValueError
FloatOrNaN(flt) == IF ~flt.ok THEN Returns(NaN) ELSE IntegerIfIntegral(flt.val)

IntegerValue(n) == Finite(n < 0, IF n < 0 THEN 0 - n ELSE n, 0, "int")

InvariantNumber(x) ==
    IF x = <<"+","i","n","f","i","n","i","t","y">> THEN Returns(Infinity(FALSE))
    ELSE IF x = <<"-","i","n","f","i","n","i","t","y">> THEN Returns(Infinity(TRUE))
    ELSE IF PySlice(x, 0, 2) = <<"0","x">> /\ PyInt(PyFrom(x, 2), 16).ok
    THEN Returns(IntegerValue(PyInt(PyFrom(x, 2), 16).val))
    ELSE FloatOrNaN(PyFloat(x))

parseinvariantnumber(x0) == InvariantNumber(Strip(x0))

(***************************************************************************)
(* The fragment types of a delta stream, as the strings the parser         *)
(* compares the type field with.                                           *)
(***************************************************************************)

T ==
    [version |-> <<"#">>,
     pageRedirect |->
        <<"p","a","g","e","R","e","d","i","r","e","c","t">>,
     error |-> <<"e","r","r","o","r">>,
     pageTitle |-> <<"p","a","g","e","T","i","t","l","e">>,
     focus |-> <<"f","o","c","u","s">>,
     updatePanel |-> <<"u","p","d","a","t","e","P","a","n","e","l">>,
     hiddenField |-> <<"h","i","d","d","e","n","F","i","e","l","d">>,
     arrayDeclaration |->
        <<"a","r","r","a","y","D","e","c","l","a","r","a","t","i","o","n">>,
     scriptBlock |-> <<"s","c","r","i","p","t","B","l","o","c","k">>,
     fallbackScript |->
        <<"f","a","l","l","b","a","c","k","S","c","r","i","p","t">>,
     scriptStartupBlock |->
        <<"s","c","r","i","p","t","S","t","a","r","t","u","p","B","l","o","c","k">>,
     expando |-> <<"e","x","p","a","n","d","o">>,
     onSubmit |-> <<"o","n","S","u","b","m","i","t">>,
     asyncPostBackControlIDs |->
        <<"a","s","y","n","c","P","o","s","t","B","a","c","k","C","o","n","t","r","o","l","I","D","s">>,
     postBackControlIDs |->
        <<"p","o","s","t","B","a","c","k","C","o","n","t","r","o","l","I","D","s">>,
     updatePanelIDs |->
        <<"u","p","d","a","t","e","P","a","n","e","l","I","D","s">>,
     asyncPostBackTimeout |->
        <<"a","s","y","n","c","P","o","s","t","B","a","c","k","T","i","m","e","o","u","t">>,
     childUpdatePanelIDs |->
        <<"c","h","i","l","d","U","p","d","a","t","e","P","a","n","e","l","I","D","s">>,
     panelsToRefreshIDs |->
        <<"p","a","n","e","l","s","T","o","R","e","f","r","e","s","h","I","D","s">>,
     formAction |-> <<"f","o","r","m","A","c","t","i","o","n">>,
     dataItem |-> <<"d","a","t","a","I","t","e","m">>,
     dataItemJson |->
        <<"d","a","t","a","I","t","e","m","J","s","o","n">>,
     scriptDispose |->
        <<"s","c","r","i","p","t","D","i","s","p","o","s","e">>]

\* the characters of codes 32 to 126, in order (the grave accent, which a
\* string cannot hold here, by its code point)
Printable ==
    <<" ","!","\"","#","$","%","&","'","(",")","*","+",",","-",".","/">> \o
    <<"0","1","2","3","4","5","6","7","8","9",":",";","<","=",">","?">> \o
    <<"@","A","B","C","D","E","F","G","H","I","J","K","L","M","N","O">> \o
    <<"P","Q","R","S","T","U","V","W","X","Y","Z","[","\\","]","^","_">> \o
    <<"U+0060","a","b","c","d","e","f","g","h","i","j","k","l","m","n","o">> \o
    <<"p","q","r","s","t","u","v","w","x","y","z","{","|","}","~">>

(***************************************************************************)
(* urllib's unquote: every %XX with two hex digits is replaced by the      *)
(* character of that code.  A code outside 32..126 is given as the         *)
(* replacement character: the model decodes one byte at a time.            *)
(***************************************************************************)

ReplacementChar == "U+FFFD"

Chr(code) == IF code >= 32 /\ code <= 126 THEN Printable[code - 31]
             ELSE ReplacementChar

RECURSIVE unquote(_)
unquote(s) ==
    IF s = <<>> THEN <<>>
    ELSE IF /\ s[1] = "%"
            /\ Len(s) >= 3
            /\ IsDigit(s[2], 16)
            /\ IsDigit(s[3], 16)
         THEN <<Chr(16 * DigitValue(s[2]) + DigitValue(s[3]))>>
              \o unquote(PyFrom(s, 3))
         ELSE <<s[1]>> \o unquote(Tail(s))

(***************************************************************************)
(* MicrosoftAjaxResponse.  A node is <<name, content>>; a script block     *)
(* node is <<name, paths>>.                                                *)
(***************************************************************************)

EmptyResponse ==
    [version |-> None, redirectUrl |-> None, error |-> None,
     pageTitle |-> None, focus |-> None,
     updatePanelNodes |-> <<>>, hiddenFieldNodes |-> <<>>,
     arrayDeclarationNodes |-> <<>>, scriptBlockNodes |-> <<>>,
     scriptStartupNodes |-> <<>>, expandoNodes |-> <<>>,
     onSubmitNodes |-> <<>>,
     asyncPostBackControlIDsNode |-> None, postBackControlIDsNode |-> None,
     updatePanelIDsNode |-> None, asyncPostBackTimeoutNode |-> None,
     childUpdatePanelIDsNode |-> None, panelsToRefreshNode |-> None,
     formActionNode |-> None,
     dataItemNodes |-> <<>>, dataItemJsonNodes |-> <<>>,
     scriptDisposeNodes |-> <<>>]

\* the outcomes of fromstream: a response, a _MicrosoftAjaxResponseParsingError
\* or another exception
Response(r) ==
    [kind |-> "response", column |-> 0, description |-> "", resp |-> r]
ParsingError(column, description) ==
    [kind |-> "_MicrosoftAjaxResponseParsingError", column |-> column,
     description |-> description, resp |-> EmptyResponse]
Escapes(exc) ==
    [kind |-> exc, column |-> 0, description |-> "", resp |-> EmptyResponse]

version4(r) == r.version # None /\ AtLeast4(r.version[1])
errorCode(r) == IF r.error # None THEN Some(r.error[1][1]) ELSE None
errorMessage(r) == IF r.error # None THEN Some(r.error[1][2]) ELSE None

\* fallbackScript: scriptBlockNodes[-1][1].append(content); the index of an
\* empty list raises IndexError, which the except KeyError clause lets through
AddFallbackScript(r, content) ==
    LET n == Len(r.scriptBlockNodes)
    IN  IF n = 0 THEN Escapes("IndexError")
        ELSE Response([r EXCEPT !.scriptBlockNodes[n][2] = Append(@, content)])

SetError(r, code, content) ==
    IF code.raises # "" THEN Escapes(code.raises)
    ELSE Response([r EXCEPT !.error = Some(<<code.val, content>>)])

\* the error node: (parseinvariantnumber(cname), content), the first one only
AddError(r, cname, content) ==
    IF r.error # None THEN Response(r)
    ELSE SetError(r, parseinvariantnumber(cname), content)

SetVersion(r, v) ==
    IF ~v.ok THEN Escapes("ValueError")
    ELSE Response([r EXCEPT !.version = Some(v.val)])

\* the version node: float(content)
AddVersion(r, content) == SetVersion(r, PyFloat(content))

\* a pageRedirect node whose URL is stored as written, whatever the version
AddPageRedirectAsWritten(r, content) ==
    IF r.redirectUrl # None THEN Response(r)
    ELSE Response([r EXCEPT !.redirectUrl = Some(content)])

\* a pageRedirect node that replaces the URL already set
AddPageRedirectLast(r, content) ==
    Response([r EXCEPT !.redirectUrl =
                 Some(IF version4(r) THEN unquote(content) ELSE content)])

\* the pageRedirect node: the first one only, unquoted from version 4 on
AddPageRedirect(r, content) ==
    IF r.redirectUrl # None THEN Response(r)
    ELSE Response([r EXCEPT !.redirectUrl =
                      Some(IF version4(r) THEN unquote(content) ELSE content)])

\* a list that takes its nodes at the front
PrependNode(nodes, node) == <<node>> \o nodes

\* nodes.append((cname, content))
AppendNode(nodes, node) == Append(nodes, node)

\* the if / elif chain on ctype
AddNodeOfType(r, ctype, cname, content, node, type_column) ==
    CASE ctype = T.version -> AddVersion(r, content)
      [] ctype = T.pageRedirect -> AddPageRedirect(r, content)
      [] ctype = T.error -> AddError(r, cname, content)
      [] ctype = T.pageTitle -> Response([r EXCEPT !.pageTitle = Some(content)])
      [] ctype = T.focus -> Response([r EXCEPT !.focus = Some(content)])
      [] ctype = T.updatePanel ->
            Response([r EXCEPT !.updatePanelNodes = AppendNode(@, node)])
      [] ctype = T.hiddenField ->
            Response([r EXCEPT !.hiddenFieldNodes = AppendNode(@, node)])
      [] ctype = T.arrayDeclaration ->
            Response([r EXCEPT !.arrayDeclarationNodes = AppendNode(@, node)])
      [] ctype = T.scriptBlock ->
            Response([r EXCEPT !.scriptBlockNodes =
                         Append(@, <<cname, <<content>>>>)])
      [] ctype = T.fallbackScript -> AddFallbackScript(r, content)
      [] ctype = T.scriptStartupBlock ->
            Response([r EXCEPT !.scriptStartupNodes = AppendNode(@, node)])
      [] ctype = T.expando ->
            Response([r EXCEPT !.expandoNodes = AppendNode(@, node)])
      [] ctype = T.onSubmit ->
            Response([r EXCEPT !.onSubmitNodes = AppendNode(@, node)])
      [] ctype = T.asyncPostBackControlIDs ->
            Response([r EXCEPT !.asyncPostBackControlIDsNode = Some(node)])
      [] ctype = T.postBackControlIDs ->
            Response([r EXCEPT !.postBackControlIDsNode = Some(node)])
      [] ctype = T.updatePanelIDs ->
            Response([r EXCEPT !.updatePanelIDsNode = Some(node)])
      [] ctype = T.asyncPostBackTimeout ->
            Response([r EXCEPT !.asyncPostBackTimeoutNode = Some(node)])
      [] ctype = T.childUpdatePanelIDs ->
            Response([r EXCEPT !.childUpdatePanelIDsNode = Some(node)])
      [] ctype = T.panelsToRefreshIDs ->
            Response([r EXCEPT !.panelsToRefreshNode = Some(node)])
      [] ctype = T.formAction ->
            Response([r EXCEPT !.formActionNode = Some(node)])
      [] ctype = T.dataItem ->
            Response([r EXCEPT !.dataItemNodes = AppendNode(@, node)])
      [] ctype = T.dataItemJson ->
            Response([r EXCEPT !.dataItemJsonNodes = AppendNode(@, node)])
      [] ctype = T.scriptDispose ->
            Response([r EXCEPT !.scriptDisposeNodes = AppendNode(@, node)])
      [] OTHER -> ParsingError(type_column, "unknown ajax fragment type")

\* an unknown type reported at the offset of the type field, counted from 0
AddNodeAtOffset(r, ctype, cname, content, type_column) ==
    AddNodeOfType(r, ctype, cname, content, <<cname, content>>, type_column - 1)

AddNode(r, ctype, cname, content, type_column) ==
    AddNodeOfType(r, ctype, cname, content, <<cname, content>>, type_column)


(***************************************************************************)
(* MicrosoftAjaxResponse.fromstream: the main reading loop.  text is the   *)
(* whole stream and pos the number of characters read from it so far.      *)
(***************************************************************************)

ReadSize == 512

\* stream.read(n)
StreamRead(text, pos, n) == PySlice(text, pos, pos + n)

LineBreaks == {"\n", "\r"}

\* an end of stream that forgives line feeds only
EndOfStreamLineFeedOnly(buf, column, r) ==
    IF \A i \in 1..Len(buf) : buf[i] = "\n"
    THEN Response(r)
    ELSE ParsingError(column, "unterminated response")

\* no three separators in buf and nothing left in the stream: line breaks
\* alone are a clean end
EndOfStream(buf, column, r) ==
    IF \A i \in 1..Len(buf) : buf[i] \in LineBreaks
    THEN Response(r)
    ELSE ParsingError(column, "unterminated response")

\* a reader that looks at nothing after the content
ContentEndsAnyhow(after) == TRUE

\* what follows the content: the separator, or nothing at the end of the stream
ContentEndsWell(after) == after \in {<<>>, <<"|">>}

RECURSIVE ReadNodes(_, _, _, _, _)

\* the node is added, and the loop goes on unless an exception ended it
NextNode(text, pos, buf, column, added) ==
    IF added.kind # "response" THEN added
    ELSE ReadNodes(text, pos, buf, column, added.resp)

\* buf holds what was read after the header; short tells that more had to be
\* read from the stream to get the content and the character after it
TakeContent(text, pos, buf, column, r, clength, ctype, cname, type_column, short) ==
    IF short /\ Len(buf) < clength
    THEN ParsingError(column, "premature end of stream")
    ELSE IF ~ContentEndsWell(PySlice(buf, clength, clength + 1))
    THEN ParsingError(column + clength,
                      "expected '|' or end of stream at end of content")
    ELSE NextNode(text, pos, PyFrom(buf, clength + 1), column + clength + 1,
                  AddNode(r, ctype, cname, PySlice(buf, 0, clength), type_column))

\* stream.read(clength + 1 - len(buf)) when buf is too short
MoreContent(text, pos, buf, clength) ==
    IF Len(buf) < clength + 1
    THEN StreamRead(text, pos, clength + 1 - Len(buf))
    ELSE <<>>

\* buf and column are past the header; clength is int(clength) or its failure
ReadContent(text, pos, buf, column, r, clength, ctype, cname, type_column) ==
    IF ~clength.ok \/ clength.val < 0
    THEN ParsingError(column + 1, "invalid content length")
    ELSE TakeContent(text, pos + Len(MoreContent(text, pos, buf, clength.val)),
                     buf \o MoreContent(text, pos, buf, clength.val),
                     column, r, clength.val, ctype, cname, type_column,
                     Len(buf) < clength.val + 1)

\* one node, its three header fields ending at the offsets o1 < o2 < o3 of buf
ReadNode(text, pos, buf, column, r, o1, o2, o3) ==
    ReadContent(text, pos, PyFrom(buf, o3 + 1), column + o3 + 1, r,
                PyInt(PySlice(buf, 0, o1), 10),
                PySlice(buf, o1 + 1, o2), PySlice(buf, o2 + 1, o3),
                column + o1 + 1)

\* the offset of the third separator of buf, or -1
NextSeparator(buf, o) == IF o < 0 THEN -1 ELSE PyFind(buf, "|", o + 1)
FirstSeparator(buf) == PyFind(buf, "|", 0)
SecondSeparator(buf) == NextSeparator(buf, FirstSeparator(buf))
ThirdSeparator(buf) == NextSeparator(buf, SecondSeparator(buf))

\* fewer than three separators in buf: read on, or end
ReadMore(text, pos, buf, column, r, newchars) ==
    IF newchars = <<>> THEN EndOfStream(buf, column, r)
    ELSE ReadNodes(text, pos + Len(newchars), buf \o newchars, column, r)

ReadNodes(text, pos, buf, column, r) ==
    IF ThirdSeparator(buf) >= 0
    THEN ReadNode(text, pos, buf, column, r, FirstSeparator(buf),
                  SecondSeparator(buf), ThirdSeparator(buf))
    ELSE ReadMore(text, pos, buf, column, r, StreamRead(text, pos, ReadSize))

fromstream(text) == ReadNodes(text, 0, <<>>, 1, EmptyResponse)

fromtext(text) == fromstream(text)

(***************************************************************************)
(* MSHTMLPage.  The document is a tree of elements: a tag, the attributes  *)
(* (a function whose domain is the set of attributes present), the text    *)
(* before the first child, the children, and the tail text after the       *)
(* element.  Names, attribute values and texts of the document are         *)
(* strings; the absent text of lxml (None) is written "".  An element is   *)
(* addressed by its path, the indices of the children leading to it.       *)
(***************************************************************************)

\* the string a sequence of characters spells
RECURSIVE Join(_)
Join(s) == IF s = <<>> THEN "" ELSE s[1] \o Join(Tail(s))

Element(tag, attrib, text, kids, tail) ==
    [tag |-> tag, attrib |-> attrib, text |-> text, kids |-> kids,
     tail |-> tail]

NoAttrs == [a \in {} |-> ""]

\* _Element(tag)
NewElement(tag) == Element(tag, NoAttrs, "", <<>>, "")

\* attrib[a] = v, del attrib[a], a in attrib, attrib.get(a)
SetAttr(e, a, v) ==
    [e EXCEPT !.attrib =
        [x \in DOMAIN e.attrib \cup {a} |-> IF x = a THEN v ELSE e.attrib[x]]]
DelAttr(e, a) ==
    [e EXCEPT !.attrib = [x \in DOMAIN e.attrib \ {a} |-> e.attrib[x]]]
HasAttr(e, a) == a \in DOMAIN e.attrib
Get(e, a) == IF HasAttr(e, a) THEN Some(e.attrib[a]) ELSE None

RECURSIVE NodeAt(_, _)
NodeAt(node, path) ==
    IF path = <<>> THEN node
    ELSE NodeAt(node.kids[Head(path)], Tail(path))

RECURSIVE ReplaceAt(_, _, _)
ReplaceAt(node, path, new) ==
    IF path = <<>> THEN new
    ELSE [node EXCEPT
            !.kids[Head(path)] = ReplaceAt(@, Tail(path), new)]

\* element.append(child)
AppendChild(root, path, child) ==
    ReplaceAt(root, path,
              [NodeAt(root, path) EXCEPT !.kids = Append(@, child)])

\* the paths of the descendants of the element at path, in document order
RECURSIVE Descendants(_, _)
RECURSIVE KidsFrom(_, _, _)
KidsFrom(node, path, i) ==
    IF i > Len(node.kids) THEN <<>>
    ELSE <<Append(path, i)>>
         \o Descendants(node.kids[i], Append(path, i))
         \o KidsFrom(node, path, i + 1)
Descendants(node, path) == KidsFrom(node, path, 1)

\* xpath('//*'): every element of the document, whatever the context node
Everywhere(root) == <<<<>>>> \o Descendants(root, <<>>)

\* xpath('.//*') on the element at path
Within(root, path) == Descendants(NodeAt(root, path), path)

\* xpath('//*[@id=$id_]') and xpath('//*[@name=$id_]'): a is id or name
ByAttr(root, a, v) ==
    SelectSeq(Everywhere(root), LAMBDA p : Get(NodeAt(root, p), a) = Some(v))

\* xpath('//form[@id=$id_]') when _formid is set, xpath('//form') otherwise
Forms(root, fid) ==
    SelectSeq(Everywhere(root),
              LAMBDA p : /\ NodeAt(root, p).tag = "form"
                         /\ fid # None => Get(NodeAt(root, p), "id") = fid)

\* how a method of the page ends: the document it leaves, the exception it
\* raises ("" when it returns) and the request it built or sent
Ends(root, raised, request) ==
    [doc |-> root, raised |-> raised, request |-> request]
Done(root) == Ends(root, "", None)
Raise(exc, root) == Ends(root, exc, None)

(***************************************************************************)
(* MSHTMLPage.__setitem__                                                  *)
(***************************************************************************)

HiddenField(key, value) ==
    SetAttr(SetAttr(SetAttr(NewElement("input"), "type", "hidden"),
                    "name", key), "value", value)

NewOption(value) ==
    SetAttr(SetAttr(NewElement("option"), "value", value),
            "selected", "selected")

\* the body of the loop over c.xpath('./option')
MarkOption(opt, value) ==
    IF opt.tag # "option" THEN opt
    ELSE IF Get(opt, "value") = Some(value)
         THEN SetAttr(opt, "selected", "selected")
         ELSE IF HasAttr(opt, "selected") THEN DelAttr(opt, "selected")
              ELSE opt

ValueFound(c, value) ==
    \E i \in 1..Len(c.kids) :
        c.kids[i].tag = "option" /\ Get(c.kids[i], "value") = Some(value)

MarkOptions(c, value) ==
    [c EXCEPT !.kids = [i \in 1..Len(c.kids) |-> MarkOption(c.kids[i], value)]]

SetSelect(c, value) ==
    IF ValueFound(c, value) THEN MarkOptions(c, value)
    ELSE [c EXCEPT !.kids = Append(MarkOptions(c, value).kids, NewOption(value))]

\* del c['checked'] deletes a child by its index: with a string for the
\* index it raises TypeError
SetControl(root, p, c, value) ==
    IF c.tag = "select" THEN Done(ReplaceAt(root, p, SetSelect(c, value)))
    ELSE IF /\ c.tag = "input"
            /\ Get(c, "type") \in {Some("checkbox"), Some("radio")}
         THEN IF value # ""
              THEN Done(ReplaceAt(root, p, SetAttr(c, "checked", "checked")))
              ELSE IF HasAttr(c, "checked") THEN Raise("TypeError", root)
                   ELSE Done(root)
         ELSE Done(ReplaceAt(root, p, SetAttr(c, "value", value)))

SetNamed(root, form, named, key, value) ==
    IF named = <<>> THEN Done(AppendChild(root, form, HiddenField(key, value)))
    ELSE SetControl(root, named[1], NodeAt(root, named[1]), value)

\* self.form raises IndexError when the document has no such form
setitem(root, fid, key, value) ==
    IF Forms(root, fid) = <<>> THEN Raise("IndexError", root)
    ELSE SetNamed(root, Forms(root, fid)[1], ByAttr(root, "name", key), key,
                  value)

(***************************************************************************)
(* MSHTMLPage.request.  A dict is the sequence of its <<key, value>>       *)
(* items in insertion order; keys and values are optional strings, since   *)
(* None is used for both.                                                  *)
(***************************************************************************)

DictHas(d, k) == \E i \in 1..Len(d) : d[i][1] = k
DictSet(d, k, v) ==
    IF DictHas(d, k)
    THEN [i \in 1..Len(d) |-> IF d[i][1] = k THEN <<k, v>> ELSE d[i]]
    ELSE Append(d, <<k, v>>)

\* the truth value of attrib.get(a), and attrib.get(a) or ''
Truthy(opt) == opt # None /\ opt[1] # ""
OrEmpty(opt) == IF Truthy(opt) THEN opt[1] ELSE ""

\* xpath('.//input | .//select') on the form, xpath('.//option') on a select
Controls(root, form) ==
    SelectSeq(Within(root, form),
              LAMBDA p : NodeAt(root, p).tag \in {"input", "select"})
Options(root, select) ==
    SelectSeq(Within(root, select), LAMBDA p : NodeAt(root, p).tag = "option")

\* opt.attrib.get('value', opt.text): the text of an element without text
\* is None
OptValue(opt) ==
    IF HasAttr(opt, "value") THEN Some(opt.attrib.value)
    ELSE IF opt.text = "" THEN None ELSE Some(opt.text)

FirstValue(defvalue, optvalue) == IF defvalue = None THEN optvalue ELSE defvalue

\* the loop over the options of a select, from option i on
RECURSIVE SelectValue(_, _, _, _)
SelectValue(root, opts, i, defvalue) ==
    IF i > Len(opts) THEN defvalue
    ELSE IF Get(NodeAt(root, opts[i]), "selected") = Some("selected")
         THEN FirstValue(OptValue(NodeAt(root, opts[i])), defvalue)
         ELSE SelectValue(root, opts, i + 1,
                          FirstValue(defvalue, OptValue(NodeAt(root, opts[i]))))

SetField(acc, name, value) ==
    [acc EXCEPT !.fields = DictSet(@, Some(name), value)]

\* every submit button records its value, whatever the button of the call
VisitInputAnySubmit(inp, name, typ, acc, button_id) ==
    IF typ \in {"checkbox", "radio"}
    THEN IF Truthy(Get(inp, "checked"))
         THEN SetField(acc, name,
                       IF HasAttr(inp, "value") THEN Get(inp, "value")
                       ELSE Some("on"))
         ELSE IF DictHas(acc.fields, Some(name)) THEN acc
              ELSE SetField(acc, name, None)
    ELSE IF typ = "file"
         THEN [acc EXCEPT !.files =
                  DictSet(@, Some(name), <<"", OrEmpty(Get(inp, "value"))>>)]
         ELSE SetField(acc, name, Some(OrEmpty(Get(inp, "value"))))

\* an unchecked control records None whatever was recorded
VisitInputOverwriting(inp, name, typ, acc, button_id) ==
    IF typ \in {"checkbox", "radio"} /\ ~Truthy(Get(inp, "checked"))
    THEN SetField(acc, name, None)
    ELSE SetField(acc, name, Some(OrEmpty(Get(inp, "value"))))

\* an input that has a name and a type
VisitInput(inp, name, typ, acc, button_id) ==
    IF typ \in {"checkbox", "radio"}
    THEN IF Truthy(Get(inp, "checked"))
         THEN SetField(acc, name,
                       IF HasAttr(inp, "value") THEN Get(inp, "value")
                       ELSE Some("on"))
         ELSE IF DictHas(acc.fields, Some(name)) THEN acc
              ELSE SetField(acc, name, None)
    ELSE IF typ = "file"
         THEN [acc EXCEPT !.files =
                  DictSet(@, Some(name), <<"", OrEmpty(Get(inp, "value"))>>)]
         ELSE IF /\ typ = "submit"
                 /\ ~Truthy(button_id) \/ Get(inp, "id") # button_id
              THEN acc
              ELSE SetField(acc, name, Some(OrEmpty(Get(inp, "value"))))

\* the body of the loop over the controls of the form
Visit(root, p, inp, acc, button_id) ==
    IF Truthy(Get(inp, "disabled")) THEN acc
    ELSE IF ~HasAttr(inp, "name") THEN acc
    ELSE IF inp.tag = "select"
         THEN SetField(acc, inp.attrib.name,
                       SelectValue(root, Options(root, p), 1, None))
         ELSE IF ~HasAttr(inp, "type") THEN acc
              ELSE VisitInput(inp, inp.attrib.name, inp.attrib.type, acc,
                              button_id)

\* the loop over the controls, from control i on; what is recorded is a value
\* before the next control is visited
RECURSIVE Collect(_, _, _, _, _)
Collect(root, controls, i, acc, button_id) ==
    IF i > Len(controls) \/ Len(acc.fields) < 0 THEN acc
    ELSE Collect(root, controls, i + 1,
                 Visit(root, controls[i], NodeAt(root, controls[i]), acc,
                       button_id),
                 button_id)

ResetIfPresent(fields, name) ==
    IF DictHas(fields, Some(name)) THEN DictSet(fields, Some(name), Some(""))
    ELSE fields

\* the three entries are set only when no control gave them, and the two
\* others are left as collected
ForceSetUnlessCollected(fields, target, argument) ==
    LET Default(d, k, v) == IF DictHas(d, Some(k)) THEN d ELSE DictSet(d, Some(k), Some(v))
    IN  Default(Default(Default(fields, "__EVENTTARGET", target),
                        "__EVENTARGUMENT", argument),
                "__LASTFOCUS", "")

\* the three entries set whatever was collected, and the two reset
ForceSet(fields, target, argument) ==
    ResetIfPresent(
        ResetIfPresent(
            DictSet(DictSet(DictSet(fields,
                                    Some("__EVENTTARGET"), Some(target)),
                            Some("__EVENTARGUMENT"), Some(argument)),
                    Some("__LASTFOCUS"), Some("")),
            "_eo_js_modules"),
        "_eo_obj_inst")

\* _Request(url, method, data): the files collected are not passed on, and
\* a request made without files has none.  The url is the action of the form,
\* to be resolved against the browser's url.
RequestOfForm(root, form, target, argument, button_id) ==
    [action |-> OrEmpty(Get(NodeAt(root, form), "action")),
     method |-> IF HasAttr(NodeAt(root, form), "method")
                THEN NodeAt(root, form).attrib.method ELSE "POST",
     data |-> ForceSet(Collect(root, Controls(root, form), 1,
                               [fields |-> <<>>, files |-> <<>>],
                               button_id).fields,
                       target, argument),
     files |-> <<>>,
     headers |-> <<>>]

\* target or '' and argument or '' are the strings themselves
request(root, fid, target, argument, button_id) ==
    IF Forms(root, fid) = <<>> THEN Raise("IndexError", root)
    ELSE Ends(root, "",
              Some(RequestOfForm(root, Forms(root, fid)[1], target, argument,
                                 button_id)))

(***************************************************************************)
(* The parse of '<html><body>%s</body></html>' % content by HTMLParser,    *)
(* for the markup the model uses: text without entities, start tags        *)
(* <name a=v b="v" c>, end tags </name>, every tag closed by '>'.          *)
(* An element left open is closed where its parent ends, an end tag that   *)
(* closes nothing is dropped, and an input has no content.                 *)
(***************************************************************************)

RECURSIVE Split(_, _)
SplitAt(s, sep, i) ==
    IF i < 0 THEN <<s>>
    ELSE <<PySlice(s, 0, i)>> \o Split(PyFrom(s, i + 1), sep)
Split(s, sep) == SplitAt(s, sep, PyFind(s, sep, 0))

Unquoted(v) ==
    IF Len(v) >= 2 /\ v[1] \in {"\"", "'"} /\ v[Len(v)] = v[1]
    THEN SubSeq(v, 2, Len(v) - 1)
    ELSE v

\* one attribute of a start tag: <<name, value>>.  The value of a bare name
\* is the name itself for the boolean attributes of HTML, and '' otherwise.
AttrAt(part, eq) ==
    IF eq < 0
    THEN <<Join(part),
           IF Join(part) \in {"checked", "compact", "declare", "defer",
                              "disabled", "ismap", "multiple", "nohref",
                              "noresize", "noshade", "nowrap", "readonly",
                              "selected"}
           THEN Join(part) ELSE "">>
    ELSE <<Join(PySlice(part, 0, eq)), Join(Unquoted(PyFrom(part, eq + 1)))>>
Attr(part) == AttrAt(part, PyFind(part, "=", 0))

\* the attributes of a start tag: the first of two with one name is kept
RECURSIVE WithAttrs(_, _, _)
WithAttrs(e, parts, i) ==
    IF i > Len(parts) THEN e
    ELSE IF parts[i] = <<>> \/ HasAttr(e, Attr(parts[i])[1])
         THEN WithAttrs(e, parts, i + 1)
         ELSE WithAttrs(SetAttr(e, Attr(parts[i])[1], Attr(parts[i])[2]),
                        parts, i + 1)

\* a text, or the name of an end tag
Token(kind, s) == [kind |-> kind, text |-> Join(s), element |-> NewElement("")]
StartToken(parts) ==
    [kind |-> "start", text |-> Join(parts[1]),
     element |-> WithAttrs(NewElement(Join(parts[1])), parts, 2)]

\* the token of the characters between '<' and '>'
TagToken(t) ==
    IF t # <<>> /\ t[1] = "/" THEN Token("end", PyFrom(t, 1))
    ELSE StartToken(Split(t, " "))

RECURSIVE HtmlTokens(_)
TagThenRest(s, gt) ==
    IF gt < 0 THEN <<Token("text", s)>>
    ELSE <<TagToken(PySlice(s, 1, gt))>> \o HtmlTokens(PyFrom(s, gt + 1))
TextThenRest(s, lt) ==
    IF lt < 0 THEN <<Token("text", s)>>
    ELSE <<Token("text", PySlice(s, 0, lt))>> \o HtmlTokens(PyFrom(s, lt))
HtmlTokens(s) ==
    IF s = <<>> THEN <<>>
    ELSE IF s[1] = "<" THEN TagThenRest(s, PyFind(s, ">", 0))
         ELSE TextThenRest(s, PyFind(s, "<", 0))

EmptyTags == {"input", "br", "img", "hr", "meta", "link"}

\* the open elements, innermost last: text goes to the text of the innermost
\* one, or to the tail of its last child
AddText(e, text) ==
    IF e.kids = <<>> THEN [e EXCEPT !.text = @ \o text]
    ELSE [e EXCEPT !.kids[Len(e.kids)].tail = @ \o text]
OnTop(open, top) == [open EXCEPT ![Len(open)] = top]
CloseLast(open) ==
    OnTop(SubSeq(open, 1, Len(open) - 1),
          [open[Len(open) - 1] EXCEPT !.kids = Append(@, open[Len(open)])])

RECURSIVE CloseDownTo(_, _)
CloseDownTo(open, depth) ==
    IF Len(open) <= depth THEN open ELSE CloseDownTo(CloseLast(open), depth)

\* the depth of the innermost open element of that name, the body excepted
OpenDepths(open, name) == {i \in 2..Len(open) : open[i].tag = name}
EndTag(open, name) ==
    IF OpenDepths(open, name) = {} THEN open
    ELSE CloseDownTo(open,
             (CHOOSE i \in OpenDepths(open, name) :
                  \A j \in OpenDepths(open, name) : i >= j) - 1)

StartTag(open, e) ==
    IF e.tag \in EmptyTags
    THEN OnTop(open, [open[Len(open)] EXCEPT !.kids = Append(@, e)])
    ELSE Append(open, e)

TreeStep(open, tok) ==
    IF tok.kind = "text" THEN OnTop(open, AddText(open[Len(open)], tok.text))
    ELSE IF tok.kind = "end" THEN EndTag(open, tok.text)
         ELSE StartTag(open, tok.element)

RECURSIVE Tree(_, _, _)
Tree(open, toks, i) ==
    IF i > Len(toks) THEN CloseDownTo(open, 1)[1]
    ELSE Tree(TreeStep(open, toks[i]), toks, i + 1)

\* fragment.getroot()[0]: the body element
parse_html(content) == Tree(<<NewElement("body")>>, HtmlTokens(content), 1)

(***************************************************************************)
(* MSHTMLPage.postback                                                     *)
(***************************************************************************)

\* the request of request() as it is
SentAsBuilt(req, smid, scriptmanager) == req

\* the request of postback: the entries and headers added to request()
Sent(req, smid, scriptmanager) ==
    [req EXCEPT
        !.data = DictSet(DictSet(@, smid, scriptmanager),
                         Some("__ASYNCPOST"), Some("true")),
        !.headers = <<<<"Cache-Control", "no-cache">>,
                      <<"X-MicrosoftAjax", "Delta=true">>,
                      <<"X-Requested-With", "XMLHttpRequest">>>>]

\* the previous children are kept and the new ones come after them
AppendChildren(root, p, fragment) ==
    ReplaceAt(root, p,
              [NodeAt(root, p) EXCEPT !.kids = @ \o fragment.kids])

\* every child is removed, then the text and the children of the fragment
\* are taken over
ReplaceChildren(root, p, fragment) ==
    ReplaceAt(root, p,
              [NodeAt(root, p) EXCEPT !.text = fragment.text,
                                      !.kids = fragment.kids])

\* the body of the loop over ajax.updatePanelNodes
UpdatePanel(root, name, content) ==
    IF Strip(content) = <<>> THEN root
    ELSE IF Len(ByAttr(root, "id", Join(name))) # 1 THEN root
         ELSE ReplaceChildren(root, ByAttr(root, "id", Join(name))[1],
                              parse_html(content))

RECURSIVE UpdatePanels(_, _, _)
UpdatePanels(root, nodes, i) ==
    IF i > Len(nodes) THEN root
    ELSE UpdatePanels(UpdatePanel(root, nodes[i][1], nodes[i][2]), nodes, i + 1)

\* the loop over ajax.hiddenFieldNodes: it ends where __setitem__ raises
RECURSIVE SetHiddenFields(_, _, _, _)
SetHiddenFields(out, fid, nodes, i) ==
    IF i > Len(nodes) \/ out.raised # "" THEN out
    ELSE SetHiddenFields(
             setitem(out.doc, fid, Join(nodes[i][1]), Join(nodes[i][2])),
             fid, nodes, i + 1)

\* the redirect is looked at before the error
PatchRedirectFirst(root, fid, r, sent) ==
    IF r.redirectUrl # None THEN Ends(root, "BrowserRedirect", sent)
    ELSE IF errorCode(r) # None THEN Ends(root, "BrowserHTTPError", sent)
    ELSE [SetHiddenFields(Done(UpdatePanels(root, r.updatePanelNodes, 1)),
                          fid, r.hiddenFieldNodes, 1)
          EXCEPT !.request = sent]

\* the hidden fields are set before the panels are updated
PatchHiddenFieldsFirst(root, fid, r, sent) ==
    IF errorCode(r) # None THEN Ends(root, "BrowserHTTPError", sent)
    ELSE IF r.redirectUrl # None THEN Ends(root, "BrowserRedirect", sent)
    ELSE IF SetHiddenFields(Done(root), fid, r.hiddenFieldNodes, 1).raised # ""
    THEN [SetHiddenFields(Done(root), fid, r.hiddenFieldNodes, 1)
          EXCEPT !.request = sent]
    ELSE Ends(UpdatePanels(SetHiddenFields(Done(root), fid,
                                           r.hiddenFieldNodes, 1).doc,
                           r.updatePanelNodes, 1),
              "", sent)

\* what the response does to the page
Patch(root, fid, r, sent) ==
    IF errorCode(r) # None THEN Ends(root, "BrowserHTTPError", sent)
    ELSE IF r.redirectUrl # None THEN Ends(root, "BrowserRedirect", sent)
    ELSE [SetHiddenFields(Done(UpdatePanels(root, r.updatePanelNodes, 1)),
                          fid, r.hiddenFieldNodes, 1)
          EXCEPT !.request = sent]

Receive(root, fid, parsed, sent) ==
    IF parsed.kind # "response" THEN Ends(root, parsed.kind, sent)
    ELSE Patch(root, fid, parsed.resp, sent)

(***************************************************************************)
(* The streams that the server sends: records, each written                *)
(* <len>|<type>|<name>|<content><term>.                                    *)
(***************************************************************************)

RECURSIVE Decimal(_)
Decimal(n) ==
    IF n < 10 THEN <<DecDigits[n + 1]>>
    ELSE Decimal(n \div 10) \o <<DecDigits[(n % 10) + 1]>>

Raw(len, type, name, content, term) ==
    [len |-> len, type |-> type, name |-> name, content |-> content,
     term |-> term]

\* a record of the wire grammar: the length is that of the content
Rec(type, name, content) ==
    Raw(Decimal(Len(content)), type, name, content, <<"|">>)

Wire(p) ==
    p.len \o <<"|">> \o p.type \o <<"|">> \o p.name \o <<"|">>
          \o p.content \o p.term

RECURSIVE WireAll(_)
WireAll(recs) ==
    IF recs = <<>> THEN <<>> ELSE Wire(Head(recs)) \o WireAll(Tail(recs))

Panel(id, html) == Rec(T.updatePanel, id, html)
Hidden(name, value) == Rec(T.hiddenField, name, value)
ErrorZero == Rec(T.error, <<"0">>, <<"E">>)
Redirect == Rec(T.pageRedirect, <<>>, <<"b">>)

ItalicThenText == <<"<","i",">","n","<","/","i",">","z">>
InputK == <<"<","i","n","p","u","t"," ","n","a","m","e","=","k"," ",
            "v","a","l","u","e","=","\"","2","\"",">">>
InputT == <<"<","i","n","p","u","t"," ","n","a","m","e","=","t"," ",
            "v","a","l","u","e","=","\"","2","\"",">">>

\* the records of the replies of the server
Replies ==
    {<<>>,
     <<ErrorZero>>,
     <<Rec(T.error, <<"x">>, <<>>)>>,
     <<Rec(T.error, <<"i","n","f">>, <<"m">>)>>,
     <<ErrorZero, Redirect>>,
     <<Redirect, ErrorZero>>,
     <<Redirect>>,
     <<Panel(<<"p">>, <<"x">>), Redirect>>,
     <<Panel(<<"p">>, ItalicThenText)>>,
     <<Panel(<<"p">>, <<>>)>>,
     <<Panel(<<"p">>, <<" ">>)>>,
     <<Panel(<<"p">>, <<"n","e","w">>)>>,
     <<Panel(<<"d">>, <<"x">>)>>,
     <<Panel(<<"z">>, <<"x">>)>>,
     <<Hidden(<<"k">>, <<"v">>)>>,
     <<Hidden(<<"n">>, <<"v">>)>>,
     <<Hidden(<<"c">>, <<>>)>>,
     <<Hidden(<<"k">>, <<"a">>), Hidden(<<"k">>, <<"b">>)>>,
     <<Hidden(<<"k">>, <<"3">>), Panel(<<"p">>, InputK)>>,
     <<Hidden(<<"t">>, <<"3">>), Panel(<<"p">>, InputT)>>,
     <<Raw(<<"9">>, T.hiddenField, <<"k">>, <<"a","b">>, <<"|">>)>>}

\* the parse of the replies of the server, made once for all
ParsedReplies == [text \in {WireAll(reply) : reply \in Replies} |-> fromtext(text)]

\* MicrosoftAjaxResponse.fromtext(response.text)
ParseReply(text) ==
    IF text \in DOMAIN ParsedReplies THEN ParsedReplies[text] ELSE fromtext(text)

\* browser.open(request): the reply is a text, or the transport fails
\* the document is lost with the reply
OpenLosingPage(root, fid, reply, sent) ==
    IF ~reply.arrives THEN Ends(NewElement("html"), "transport failure", sent)
    ELSE Receive(root, fid, ParseReply(reply.text), sent)

Open(root, fid, reply, sent) ==
    IF ~reply.arrives THEN Ends(root, "transport failure", sent)
    ELSE Receive(root, fid, ParseReply(reply.text), sent)

\* the dump of the patched document for debugging leaves the page alone
\* postback once self.request(target, argument) has ended as built
postback_with(root, fid, smid, built, scriptmanager, reply) ==
    IF built.raised # "" THEN built
    ELSE Open(root, fid, reply,
              Some(Sent(built.request[1], smid, scriptmanager)))

postback(root, fid, smid, target, argument, scriptmanager, reply) ==
    postback_with(root, fid, smid, request(root, fid, target, argument, None),
                  scriptmanager, reply)

\* page.submit(target, argument, button_id): the request handed to
\* browser.location, which raises when the transport fails
submit(root, fid, target, argument, button_id, arrives) ==
    IF Forms(root, fid) = <<>> THEN Raise("IndexError", root)
    ELSE Ends(root, IF arrives THEN "" ELSE "transport failure",
              Some(RequestOfForm(root, Forms(root, fid)[1], target, argument,
                                 button_id)))

(***************************************************************************)
(* MSHTMLPage.build_doc.  The content of a page is its parsed document and *)
(* the texts of its script elements in document order; offsets are         *)
(* 1-based.                                                                *)
(***************************************************************************)

\* 'WebForms.PageRequestManager._initialize'
InitializeCall ==
    <<"W","e","b","F","o","r","m","s",".","P","a","g","e",
      "R","e","q","u","e","s","t","M","a","n","a","g","e","r",
      ".","_","i","n","i","t","i","a","l","i","z","e">>

\* ('([^']*)'|"([^"])*") at offset i: whether it matches, the two groups
\* and the offset after the match.  The group of the double-quoted form
\* stands inside the repetition: it holds the last character matched, and
\* nothing for an empty literal.
Literal(s, i) ==
    LET close == {j \in (i + 1)..Len(s) : s[j] = s[i]}
        j == CHOOSE j \in close : \A k \in close : j <= k
    IN  IF i > Len(s) \/ s[i] \notin {"'", "\""} \/ close = {}
        THEN [ok |-> FALSE, single |-> None, double |-> None, end |-> 0]
        ELSE [ok |-> TRUE,
              single |-> IF s[i] = "'" THEN Some(Join(SubSeq(s, i + 1, j - 1)))
                         ELSE None,
              double |-> IF s[i] = "\"" /\ j > i + 1 THEN Some(s[j - 1])
                         ELSE None,
              end |-> j + 1]

\* ,\s+ at offset i: the offset after it, 0 when it does not match
AfterComma(s, i) ==
    IF i + 1 > Len(s) \/ s[i] # "," \/ s[i + 1] \notin Whitespace THEN 0
    ELSE CHOOSE k \in (i + 2)..(Len(s) + 1) :
             /\ \A j \in (i + 1)..(k - 1) : s[j] \in Whitespace
             /\ k <= Len(s) => s[k] \notin Whitespace

\* the regular expression at an occurrence of InitializeCall: whether it
\* matches, and the groups 2, 3, 5 and 6
MatchAt(s, i) ==
    LET a == Literal(s, i + Len(InitializeCall) + 1)
        b == Literal(s, AfterComma(s, a.end))
    IN  IF /\ i + Len(InitializeCall) <= Len(s)
           /\ s[i + Len(InitializeCall)] = "("
           /\ a.ok
           /\ AfterComma(s, a.end) # 0
           /\ b.ok
        THEN [ok |-> TRUE, s1 |-> a.single, s2 |-> a.double,
              f1 |-> b.single, f2 |-> b.double]
        ELSE [ok |-> FALSE, s1 |-> None, s2 |-> None, f1 |-> None, f2 |-> None]

\* next(re.finditer(...)): the leftmost match, ok being FALSE for
\* StopIteration
FirstMatch(s) ==
    LET hits == {i \in 1..(Len(s) - Len(InitializeCall) + 1) :
                    /\ SubSeq(s, i, i + Len(InitializeCall) - 1) = InitializeCall
                    /\ MatchAt(s, i).ok}
    IN  IF hits = {} THEN MatchAt(s, Len(s) + 1)
        ELSE MatchAt(s, CHOOSE i \in hits : \A j \in hits : i <= j)

\* the loop over the scripts: every script holds InitializeCall or is passed
\* over as the xpath does, the first one with a match decides; s1 or s2 is
\* s2 when s1 is None or ''
RECURSIVE ScanScripts(_, _)
ScanScripts(scripts, i) ==
    IF i > Len(scripts) THEN [scriptmanagerid |-> None, formid |-> None]
    ELSE IF ~FirstMatch(scripts[i]).ok THEN ScanScripts(scripts, i + 1)
         ELSE [scriptmanagerid |->
                   IF Truthy(FirstMatch(scripts[i]).s1)
                   THEN FirstMatch(scripts[i]).s1 ELSE FirstMatch(scripts[i]).s2,
               formid |->
                   IF Truthy(FirstMatch(scripts[i]).f1)
                   THEN FirstMatch(scripts[i]).f1 ELSE FirstMatch(scripts[i]).f2]

\* the page that a full load builds
build_doc(content) ==
    [doc |-> content.doc,
     formid |-> ScanScripts(content.scripts, 1).formid,
     scriptmanagerid |-> ScanScripts(content.scripts, 1).scriptmanagerid]

(***************************************************************************)
(* The errors of a login (errors.py) and IntranetSGDFBrowser.do_login.     *)
(* An exception is its class and its message, str(exc); the class "" and   *)
(* the empty message stand for a return.                                   *)
(***************************************************************************)

Exception(class, message) == [class |-> class, message |-> message]

\* the classes that an exception of that class is an instance of
Ancestors(class) ==
    IF class = "IntranetLoginError"
    THEN {class, "IntranetError", "BrowserIncorrectPassword"}
    ELSE IF class \in {"IntranetUserNotFoundError",
                       "IntranetInvalidPasswordError",
                       "IntranetUnauthorizedUserError"}
         THEN {class, "IntranetLoginError", "IntranetError",
               "BrowserIncorrectPassword"}
         ELSE {class}

\* sub in s
Contains(s, sub) ==
    \E i \in 1..(Len(s) - Len(sub) + 1) : SubSeq(s, i, i + Len(sub) - 1) = sub

\* repr(s) of a string without quote or backslash
Repr(s) == <<"'">> \o s \o <<"'">>

\* message or original_message; the message of Exception(None) reads None
IntranetLoginError(class, message, original_message) ==
    Exception(class,
              IF message # None /\ message # Some(<<>>) THEN message[1]
              ELSE IF original_message = None THEN <<"N","o","n","e">>
                   ELSE original_message[1])

IntranetUserNotFoundError(login, original_message) ==
    IntranetLoginError("IntranetUserNotFoundError",
        Some(<<"i","n","v","a","l","i","d"," ","u","s","e","r">>
             \o (IF login # None THEN <<" ">> \o Repr(login[1]) ELSE <<>>)),
        original_message)

\* the message is the label of the intranet
LabelOfIntranet(login, password, original_message) ==
    IntranetLoginError("IntranetInvalidPasswordError", None, original_message)

IntranetInvalidPasswordError(login, password, original_message) ==
    IntranetLoginError("IntranetInvalidPasswordError",
        Some(<<"i","n","v","a","l","i","d"," ","p","a","s","s","w","o","r","d">>
             \o (IF login # None
                 THEN <<" ","f","o","r"," ","u","s","e","r"," ">> \o Repr(login[1])
                 ELSE <<>>)
             \o (IF password # None THEN <<":"," ">> \o Repr(password[1])
                 ELSE <<>>)),
        original_message)

\* the original message is not handed on
IntranetUnauthorizedUserError(login, original_message) ==
    IntranetLoginError("IntranetUnauthorizedUserError",
        Some(<<"u","s","e","r">>
             \o (IF login # None /\ login # Some(<<>>)
                 THEN <<" ","w","i","t","h"," ","i","d","e","n","t","i","f","i","e","r",
      " ">>
                      \o Repr(login[1])
                 ELSE <<>>)
             \o <<" ","i","s"," ","n","o","t"," ","a","l","l","o","w","e","d"," ",
      "t","o"," ","l","o","g"," ","i","n",".">>),
        None)

\* LoginPage.do_login: the request that the page submits
page_do_login(root, fid, login, password) ==
    IF setitem(root, fid, "login", Join(login)).raised # ""
    THEN setitem(root, fid, "login", Join(login))
    ELSE IF setitem(setitem(root, fid, "login", Join(login)).doc, fid,
                    "password", Join(password)).raised # ""
         THEN setitem(setitem(root, fid, "login", Join(login)).doc, fid,
                      "password", Join(password))
         ELSE submit(setitem(setitem(root, fid, "login", Join(login)).doc, fid,
                             "password", Join(password)).doc,
                     fid, "_btnValider", "", Some("_btnValider"), TRUE)

\* do_login once the intranet has answered: answer.url is the page the
\* browser is on, answer.error the text of the error label of the page
do_login(username, password, answer) ==
    IF username = <<>> \/ password = <<>>
    THEN Exception("BrowserIncorrectPassword", <<>>)
    ELSE IF answer.url # "login" THEN Exception("", <<>>)
    ELSE IF answer.error = None \/ answer.error = Some(<<>>)
         THEN Exception("BrowserUnavailable", <<>>)
    ELSE IF Contains(answer.error[1],
                     <<"d","e","n","t","i","f","i","a","n","t"," ","i","n","v","a","l",
      "i","d","e">>)
         THEN IntranetUserNotFoundError(Some(username), answer.error)
    ELSE IF Contains(answer.error[1],
                     <<"p","a","s","s","e"," ","i","n","v","a","l","i","d","e">>)
         THEN IntranetInvalidPasswordError(Some(username), Some(password),
                                           answer.error)
    ELSE IF Contains(answer.error[1],
                     <<"p","a","s"," ","l","e"," ","d","r","o","i","t">>)
         THEN IntranetUnauthorizedUserError(Some(username), answer.error)
    ELSE IntranetLoginError("IntranetLoginError", None, answer.error)

\* no page is loaded
NoPage ==
    /\ doc = NewElement("html")
    /\ formid = None
    /\ scriptmanagerid = None
    /\ call = [op |-> "", raised |-> ""]
    /\ steps = 0
    /\ browser = None

(***************************************************************************)
(* The number reader on its own: every token over NumAlphabet of at most   *)
(* MaxTokenLen characters, and the tokens the documentation names.         *)
(***************************************************************************)

MaxTokenLen == 3

NumAlphabet == {"0", "1", "4", "F", "x", ".", "e", "+", "-", "_", " ",
                "i", "n", "f", "a"}

NamedTokens ==
    {<<"+","i","n","f","i","n","i","t","y">>,
     <<"-","i","n","f","i","n","i","t","y">>,
     <<"i","n","f","i","n","i","t","y">>,
     <<"0","x","1","F">>, <<"a","b","c">>, <<"1","e","9","9","9">>,
     <<"0","x","0","x","1","F">>, <<" ","0","x","1","F"," ">>}

Tokens ==
    NamedTokens \cup UNION {[1..k -> NumAlphabet] : k \in 0..MaxTokenLen}

InitNum ==
    /\ token \in Tokens
    /\ number = None
    /\ input = [recs |-> <<>>, tail |-> <<>>]
    /\ ajax = None
    /\ NoPage

CallParseInvariantNumber ==
    /\ number = None
    /\ number' = Some(parseinvariantnumber(token))
    /\ UNCHANGED <<token, input, ajax, doc, formid, scriptmanagerid, call,
                   steps, browser>>

NextNum == CallParseInvariantNumber

SpecNum == InitNum /\ [][NextNum]_vars

(***************************************************************************)
(* The parser on its own.  A stream is made of records, each written       *)
(* <len>|<type>|<name>|<content><term>, and of a tail.                     *)
(***************************************************************************)

Text(in) == WireAll(in.recs) \o in.tail

WellFormed(p) ==
    /\ p = Rec(p.type, p.name, p.content)
    /\ \A i \in 1..Len(p.type) : p.type[i] # "|"
    /\ \A i \in 1..Len(p.name) : p.name[i] # "|"

WellFormedRecords ==
    {Rec(T.version, <<>>, <<"4">>),
     Rec(T.version, <<>>, <<"3",".","5">>),
     Rec(T.version, <<>>, <<"a","b">>),
     Rec(T.pageRedirect, <<>>, <<"%","4","1">>),
     Rec(T.pageRedirect, <<>>, <<"b">>),
     Rec(T.error, <<"0">>, <<"E">>),
     Rec(T.error, <<"x">>, <<>>),
     Rec(T.error, <<"i","n","f">>, <<"m">>),
     Rec(T.pageTitle, <<>>, <<"t">>),
     Rec(T.pageTitle, <<>>, <<"u">>),
     Rec(T.focus, <<>>, <<"f">>),
     Rec(T.focus, <<"n">>, <<"g">>),
     Rec(T.updatePanel, <<"p">>, <<"h","|","h">>),
     Rec(T.hiddenField, <<"k">>, <<"v">>),
     Rec(T.hiddenField, <<"k">>, <<>>),
     Rec(T.scriptBlock, <<"s">>, <<"a">>),
     Rec(T.fallbackScript, <<>>, <<"b">>),
     Rec(T.formAction, <<>>, <<"u">>),
     Rec(T.dataItem, <<"d">>, <<"1">>),
     Rec(<<"z","z">>, <<"n">>, <<"c">>)}

MalformedRecords ==
    {Raw(<<"9">>, T.hiddenField, <<"k">>, <<"a","b">>, <<"|">>),
     Raw(<<"1">>, T.hiddenField, <<"k">>, <<"a","b">>, <<"|">>),
     Raw(<<"2">>, T.hiddenField, <<"k">>, <<"a">>, <<"|">>),
     Raw(<<"x">>, T.hiddenField, <<"k">>, <<"a">>, <<"|">>),
     Raw(<<"-","1">>, T.hiddenField, <<"k">>, <<"a">>, <<"|">>),
     Raw(<<"1">>, T.hiddenField, <<"k">>, <<"v">>, <<>>)}

Records == WellFormedRecords \cup MalformedRecords

LineBreakTails == {<<>>, <<"\n">>, <<"\r","\n">>}
Tails == LineBreakTails \cup {<<" ">>, <<"1","|","a">>}

MaxRecords == 2

RecordLists(S) == UNION {[1..k -> S] : k \in 0..MaxRecords}

InitParse ==
    /\ input \in [recs : RecordLists(Records), tail : Tails]
    /\ ajax = None
    /\ token = <<>>
    /\ number = None
    /\ NoPage

CallFromText ==
    /\ ajax = None
    /\ ajax' = Some(fromtext(Text(input)))
    /\ UNCHANGED <<input, token, number, doc, formid, scriptmanagerid, call,
                   steps, browser>>

NextParse == CallFromText

SpecParse == InitParse /\ [][NextParse]_vars

(***************************************************************************)
(* The parser on streams of version and pageRedirect records, which may    *)
(* hold several version records before a pageRedirect record.              *)
(***************************************************************************)

RedirectRecords ==
    {Rec(T.version, <<>>, <<"4">>),
     Rec(T.version, <<>>, <<"3",".","5">>),
     Rec(T.pageRedirect, <<>>, <<"%","4","1">>),
     Rec(T.pageRedirect, <<>>, <<"b">>),
     Rec(T.pageTitle, <<>>, <<"t">>)}

MaxRedirectRecords == 3

InitRedirect ==
    /\ input \in [recs : UNION {[1..k -> RedirectRecords] :
                                   k \in 0..MaxRedirectRecords},
                   tail : {<<>>}]
    /\ ajax = None
    /\ token = <<>>
    /\ number = None
    /\ NoPage

SpecRedirect == InitRedirect /\ [][NextParse]_vars

(***************************************************************************)
(* The page in use: a page is loaded, then controls are set, requests are  *)
(* built and postbacks are made, MaxSteps calls at most.                   *)
(***************************************************************************)

E(tag, attrib, text, kids) == Element(tag, attrib, text, kids, "")

\* no initialization call: the active form is the first form.  The head
\* holds a named element, two elements share the identifier d, the submit
\* button has no value.
PlainDoc ==
  E("html", NoAttrs, "", <<
    E("head", NoAttrs, "", <<E("meta", [name |-> "m", content |-> "c"], "", <<>>)>>),
    E("body", NoAttrs, "", <<
      E("form", [id |-> "f", action |-> "p.aspx"], "", <<
        E("input", [type |-> "hidden", name |-> "k", value |-> "1"], "", <<>>),
        E("div", [id |-> "p"], "old", <<
          Element("span", NoAttrs, "x", <<>>, "y"),
          E("input", [type |-> "text", name |-> "t", value |-> "1"], "", <<>>)>>),
        E("select", [name |-> "s"], "", <<
          E("option", [value |-> "a"], "A", <<>>),
          E("option", [value |-> "b", selected |-> "selected"], "B", <<>>)>>),
        E("input", [type |-> "checkbox", name |-> "c", value |-> "1",
                    checked |-> "checked"], "", <<>>),
        E("input", [type |-> "submit", id |-> "b", name |-> "go"], "", <<>>)>>),
      E("div", [id |-> "d"], "", <<>>),
      E("div", [id |-> "d"], "", <<>>)>>)>>)

\* the initialization call names the second form.  The first form holds a
\* control named k; the select has two options of one value and a selected
\* option in a group.
ManagedDoc ==
  E("html", NoAttrs, "", <<
    E("body", NoAttrs, "", <<
      E("form", [id |-> "f"], "", <<
        E("input", [type |-> "text", name |-> "k", value |-> "o"], "", <<>>)>>),
      E("form", [id |-> "g", method |-> "post"], "", <<
        E("div", [id |-> "p"], "old", <<>>),
        E("select", [name |-> "s"], "", <<
          E("option", [value |-> "a"], "A", <<>>),
          E("option", [value |-> "a"], "A2", <<>>),
          E("optgroup", NoAttrs, "", <<
            E("option", [value |-> "b", selected |-> "selected"], "B", <<>>)>>)>>),
        E("input", [type |-> "radio", name |-> "c", value |-> "x"], "", <<>>),
        E("input", [type |-> "radio", name |-> "c", value |-> "y",
                    checked |-> "checked"], "", <<>>)>>)>>)>>)

\* a form of controls of every kind.  The selects: u without a selected
\* option and with an option whose value is its text, s whose selected
\* option is marked selected="", w whose first option has neither value nor
\* text, e without options.  The radio groups: r with the checked control
\* first, q with the checked control last, c whose control is marked
\* checked="".
FormDoc ==
  E("html", NoAttrs, "", <<
    E("body", NoAttrs, "", <<
      E("form", [id |-> "f"], "", <<
        E("select", [name |-> "u"], "", <<
          E("option", NoAttrs, "A", <<>>),
          E("option", [value |-> "b"], "B", <<>>)>>),
        E("select", [name |-> "s"], "", <<
          E("option", [value |-> "a"], "A", <<>>),
          E("option", [value |-> "b", selected |-> ""], "B", <<>>)>>),
        E("select", [name |-> "w"], "", <<
          E("option", NoAttrs, "", <<>>),
          E("option", [value |-> "b"], "B", <<>>)>>),
        E("select", [name |-> "e"], "", <<>>),
        E("input", [type |-> "radio", name |-> "r", value |-> "x",
                    checked |-> "checked"], "", <<>>),
        E("input", [type |-> "radio", name |-> "r", value |-> "y"], "", <<>>),
        E("input", [type |-> "radio", name |-> "q", value |-> "x"], "", <<>>),
        E("input", [type |-> "radio", name |-> "q", value |-> "y",
                    checked |-> "checked"], "", <<>>),
        E("input", [type |-> "radio", name |-> "c", value |-> "x",
                    checked |-> ""], "", <<>>),
        E("input", [type |-> "radio", name |-> "c", value |-> "y"], "", <<>>),
        E("input", [type |-> "checkbox", name |-> "b", value |-> "1"], "", <<>>),
        E("input", [type |-> "text", name |-> "k", value |-> "v"], "", <<>>),
        E("input", [type |-> "checkbox", name |-> "k", value |-> "2"], "", <<>>),
        E("input", [type |-> "hidden", name |-> "h"], "", <<>>),
        E("input", [type |-> "password", name |-> "pw", value |-> "s"], "", <<>>),
        E("input", [name |-> "nt", value |-> "z"], "", <<>>),
        E("input", [type |-> "file", name |-> "fl"], "", <<>>),
        E("input", [type |-> "submit", id |-> "b", name |-> "go",
                    value |-> "Go"], "", <<>>),
        E("input", [type |-> "submit", id |-> "b2", name |-> "no",
                    value |-> "No"], "", <<>>),
        E("input", [type |-> "text", name |-> "d", value |-> "1",
                    disabled |-> "disabled"], "", <<>>),
        E("input", [type |-> "text", name |-> "d2", value |-> "2",
                    disabled |-> ""], "", <<>>),
        E("input", [type |-> "hidden", name |-> "__EVENTTARGET",
                    value |-> "old"], "", <<>>),
        E("input", [type |-> "hidden", name |-> "_eo_js_modules",
                    value |-> "mods"], "", <<>>)>>)>>)>>)

\* a page whose script writes the two identifiers between double quotes
QuotedDoc ==
  E("html", NoAttrs, "", <<
    E("body", NoAttrs, "", <<
      E("form", [id |-> "fg"], "", <<
        E("input", [type |-> "text", name |-> "k", value |-> "o"], "", <<>>)>>)>>)>>)

\* the call in the script of a page, with its arguments as written
Initialize(args) ==
    <<"S","y","s",".">> \o InitializeCall \o <<"(">> \o args \o <<")",";">>

\* the content of a page: the document, with the scripts at the end of its
\* body, and the two arguments that its script writes, which the page
\* object never reads
Content(root, scripts, first, second) ==
    [doc |-> [root EXCEPT
                 !.kids[Len(root.kids)].kids =
                     @ \o [i \in 1..Len(scripts) |->
                              E("script", NoAttrs, Join(scripts[i]), <<>>)]],
     scripts |-> scripts,
     written |-> [scriptmanagerid |-> first, formid |-> second]]

\* the pages the server serves.  The first script of the second page names
\* the call without making it.
Contents ==
    {Content(PlainDoc, <<>>, None, None),
     Content(ManagedDoc,
             <<InitializeCall \o <<";">>,
               Initialize(<<"'","s","m","'",","," ","'","g","'",","," ","[","]">>)>>,
             Some("sm"), Some("g")),
     Content(FormDoc, <<>>, None, None),
     Content(QuotedDoc, <<Initialize(<<"\"","s","m","\"",","," ","\"","f","g","\"",","," ","[","]">>)>>,
             Some("sm"), Some("fg"))}

Pages == {build_doc(content) : content \in Contents}

Keys == {"k", "s", "c", "m", "n"}
Values == {"", "a", "b"}

NoArgs ==
    [key |-> "", value |-> "", target |-> "", argument |-> "",
     button_id |-> None, scriptmanager |-> None, arrives |-> TRUE,
     reply |-> <<>>]

\* the page object: its document and the two identifiers of build_doc
Page == [doc |-> doc, formid |-> formid, scriptmanagerid |-> scriptmanagerid]

\* a call on the page: its arguments, how it ended and the page before it
Call(op, args, out, before) ==
    [op |-> op, args |-> args, raised |-> out.raised,
     request |-> out.request, before |-> before]

MaxSteps == 2

Init ==
    /\ \E page \in Pages :
         /\ doc = page.doc
         /\ formid = page.formid
         /\ scriptmanagerid = page.scriptmanagerid
    /\ call = Call("load", NoArgs, Done(doc), Page)
    /\ steps = 0
    /\ browser = None
    /\ token = <<>>
    /\ number = None
    /\ input = [recs |-> <<>>, tail |-> <<>>]
    /\ ajax = None

\* page[key] = value
SetItem ==
    /\ steps < MaxSteps
    /\ \E key \in Keys, value \in Values :
         \E out \in {setitem(doc, formid, key, value)} :
            /\ doc' = out.doc
            /\ call' = Call("setitem",
                            [NoArgs EXCEPT !.key = key, !.value = value],
                            out, Page)
    /\ steps' = steps + 1
    /\ UNCHANGED <<formid, scriptmanagerid, token, number, input, ajax, browser>>

\* page.request(target, argument, button_id)
BuildRequest ==
    /\ steps < MaxSteps
    /\ \E target \in {"", "t"}, button_id \in {None, Some("b")} :
         call' = Call("request",
                      [NoArgs EXCEPT !.target = target, !.button_id = button_id],
                      request(doc, formid, target, "", button_id), Page)
    /\ steps' = steps + 1
    /\ UNCHANGED <<doc, formid, scriptmanagerid, token, number, input, ajax,
                   browser>>

\* the request is built once, whatever the server answers
PostbackWith(args, built) ==
    \E out \in {postback_with(doc, formid, scriptmanagerid, built,
                              args.scriptmanager,
                              [arrives |-> args.arrives,
                               text |-> WireAll(args.reply)])} :
       /\ doc' = out.doc
       /\ call' = Call("postback", args, out, Page)

\* page.postback(target, argument, scriptmanager)
Postback ==
    /\ steps < MaxSteps
    /\ \/ \E built \in {request(doc, formid, "t", "", None)} :
            \E reply \in Replies :
               PostbackWith([NoArgs EXCEPT !.target = "t",
                                           !.scriptmanager = Some("sm|t"),
                                           !.reply = reply],
                            built)
       \/ \E built \in {request(doc, formid, "", "", None)} :
            PostbackWith([NoArgs EXCEPT !.arrives = FALSE], built)
    /\ steps' = steps + 1
    /\ UNCHANGED <<formid, scriptmanagerid, token, number, input, ajax, browser>>

\* page.submit(target, argument, button_id): the browser goes to the page
\* that the response builds
Submit ==
    /\ steps < MaxSteps
    /\ \E button_id \in {None, Some("b")}, arrives \in BOOLEAN :
         \E out \in {submit(doc, formid, "t", "", button_id, arrives)} :
            /\ call' = Call("submit",
                            [NoArgs EXCEPT !.target = "t",
                                           !.button_id = button_id,
                                           !.arrives = arrives],
                            out, Page)
            /\ IF out.raised = ""
               THEN \E page \in Pages :
                       /\ doc' = page.doc
                       /\ formid' = page.formid
                       /\ scriptmanagerid' = page.scriptmanagerid
               ELSE UNCHANGED <<doc, formid, scriptmanagerid>>
    /\ steps' = steps + 1
    /\ UNCHANGED <<token, number, input, ajax, browser>>

Next == SetItem \/ BuildRequest \/ Postback \/ Submit

Spec == Init /\ [][Next]_vars

(***************************************************************************)
(* SpecLogin: check_login on a browser of the intranet.  The intranet is   *)
(* the environment: it knows two users, one of which may not log in, and   *)
(* answers a login with the home page, or with the login page and an       *)
(* error label.                                                            *)
(***************************************************************************)

LoginDoc ==
  E("html", NoAttrs, "", <<
    E("body", NoAttrs, "", <<
      E("form", [id |-> "f", action |-> "Default.aspx"], "", <<
        E("input", [type |-> "text", name |-> "login"], "", <<>>),
        E("input", [type |-> "password", name |-> "password"], "", <<>>),
        E("input", [type |-> "submit", id |-> "_btnValider",
                    name |-> "_btnValider", value |-> "Valider"], "", <<>>),
        E("span", [id |-> "ctl00_lblErreur"], "", <<>>)>>)>>)>>)

Usernames == {<<>>, <<"1">>, <<"1","6">>, <<"9">>, <<"1","7">>}
Passwords == {<<>>, <<"v">>, <<"t">>, <<"w">>, <<"v","t">>}

Accounts ==
    {[login |-> "1", password |-> "v", allowed |-> TRUE],
     [login |-> "16", password |-> "t", allowed |-> FALSE]}

\* the data of the request hold name = value
Sends(data, name, value) ==
    \E i \in 1..Len(data) : data[i] = <<Some(name), Some(value)>>

\* what the intranet makes of the login and the password it receives
Verdict(data) ==
    IF \A a \in Accounts : ~Sends(data, "login", a.login)
    THEN "unknown user"
    ELSE IF \A a \in Accounts :
               Sends(data, "login", a.login)
               => ~Sends(data, "password", a.password)
         THEN "invalid password"
         ELSE IF \E a \in Accounts :
                    Sends(data, "login", a.login) /\ ~a.allowed
              THEN "unauthorized"
              ELSE "accepted"

\* the error label of the intranet for a login it rejects
Wording(verdict) ==
    IF verdict = "unknown user" THEN <<"I","d","e","n","t","i","f","i","a","n","t"," ","i","n","v","a","l","i","d","e">>
    ELSE IF verdict = "invalid password"
         THEN <<"M","o","t"," ","d","e"," ","p","a","s","s","e"," ","i","n","v","a","l","i","d","e">>
         ELSE <<"V","o","u","s"," ","n","'","a","v","e","z"," ","p","a","s"," ","l","e"," ","d","r","o","i","t">>

Answer(url, error) == [url |-> url, error |-> error]

\* the answers of the intranet: its judgement, no label at all, or a label
\* about something else
Answers(verdict) ==
    {IF verdict = "accepted" THEN Answer("home", None)
     ELSE Answer("login", Some(Wording(verdict))),
     Answer("login", None),
     Answer("login", Some(<<"E","r","r","e","u","r">>))}

InitLogin ==
    /\ \E username \in Usernames, password \in Passwords :
         browser = Some([username |-> username, password |-> password,
                         page |-> "none"])
    /\ token = <<>>
    /\ number = None
    /\ input = [recs |-> <<>>, tail |-> <<>>]
    /\ ajax = None
    /\ doc = NewElement("html")
    /\ formid = None
    /\ scriptmanagerid = None
    /\ call = [op |-> "", raised |-> ""]
    /\ steps = 0

\* the login that need_login makes: the login page is fetched, filled in
\* and submitted, and do_login reads the answer
Login(b, out, answer) ==
    /\ call' = [op |-> "check_login",
                raised |-> do_login(b.username, b.password, answer).class,
                message |-> do_login(b.username, b.password, answer).message,
                request |-> out.request,
                verdict |-> Verdict(out.request[1].data),
                answer |-> answer]
    /\ browser' = Some([b EXCEPT !.page = answer.url])

\* the call that meets no page: the browser is logged already, or do_login
\* raises before it fetches the login page
Offline(exc) ==
    /\ call' = [op |-> "check_login", raised |-> exc.class,
                message |-> exc.message, request |-> None, verdict |-> "",
                answer |-> None]
    /\ UNCHANGED browser

\* browser.check_login(): need_login logs in unless the page of the browser
\* is a logged page
CheckLogin ==
    /\ steps < MaxSteps
    /\ browser # None
    /\ IF browser[1].page = "home" THEN Offline(Exception("", <<>>))
       ELSE IF browser[1].username = <<>> \/ browser[1].password = <<>>
       THEN Offline(do_login(browser[1].username, browser[1].password,
                             Answer("none", None)))
       ELSE \E answer \in
                Answers(Verdict(page_do_login(LoginDoc, None,
                                              browser[1].username,
                                              browser[1].password)
                                    .request[1].data)) :
                Login(browser[1],
                      page_do_login(LoginDoc, None, browser[1].username,
                                    browser[1].password),
                      answer)
    /\ steps' = steps + 1
    /\ UNCHANGED <<token, number, input, ajax, doc, formid, scriptmanagerid>>

NextLogin == CheckLogin

SpecLogin == InitLogin /\ [][NextLogin]_vars

(***************************************************************************)
(* SpecApi: the browser of the intranet API (api/browser.py).  Times are   *)
(* whole numbers; utcnow is the clock, which the browser reads and does    *)
(* not set.  Requests are built for the token page or for another page.    *)
(***************************************************************************)

\* the property logged, as a truth value: a datetime is always true, so that
\* 'not access_token_expires_at' tells that it is None
logged(b) ==
    /\ Truthy(b.access_token)
    /\ \/ b.access_token_expires_at = None
       \/ b.access_token_expires_at[1] < b.utcnow

\* f'{self.access_token_type or "Bearer"} {self.access_token}'
Authorization(b) ==
    <<IF Truthy(b.access_token_type) THEN b.access_token_type[1] ELSE "Bearer",
      b.access_token[1]>>

\* the headers that build_request sets; url is "token" for the token page
build_request(b, url) ==
    IF url = "token" THEN <<>>
    ELSE IF logged(b)
         THEN <<<<"idAppelant", b.client_id>>,
                <<"Authorization", Authorization(b)>>>>
         ELSE <<<<"idAppelant", b.client_id>>>>

\* TokenPage.get_access_data: the expiry is None without expires_in (or with
\* 0), and that many seconds from now otherwise
get_access_data(answer, utcnow) ==
    [access_token |-> answer.access_token,
     access_token_type |-> answer.token_type,
     access_token_expires_at |->
         IF answer.expires_in = 0 THEN None
         ELSE Some(utcnow + answer.expires_in),
     refresh_token |-> answer.refresh_token]

\* the grant that do_login asks for
GrantType(b) == IF Truthy(b.refresh_token) THEN "refresh_token" ELSE "password"

\* do_login: the four fields of the browser are those of the answer
api_do_login(b, answer) ==
    [b EXCEPT
        !.access_token = get_access_data(answer, b.utcnow).access_token,
        !.access_token_type = get_access_data(answer, b.utcnow).access_token_type,
        !.access_token_expires_at =
            get_access_data(answer, b.utcnow).access_token_expires_at,
        !.refresh_token = get_access_data(answer, b.utcnow).refresh_token]

MaxClock == 3
MaxExpiresIn == 2

\* the answers of the token page
TokenAnswers ==
    [access_token : {None, Some("a")}, token_type : {None, Some("T")},
     expires_in : 0..MaxExpiresIn, refresh_token : {None, Some("r")}]

InitApi ==
    /\ browser = Some([client_id |-> "id", access_token |-> None,
                       access_token_type |-> None,
                       access_token_expires_at |-> None,
                       refresh_token |-> None, utcnow |-> 0])
    /\ call = [op |-> "", raised |-> ""]
    /\ steps = 0
    /\ token = <<>>
    /\ number = None
    /\ input = [recs |-> <<>>, tail |-> <<>>]
    /\ ajax = None
    /\ doc = NewElement("html")
    /\ formid = None
    /\ scriptmanagerid = None

\* browser.do_login()
ApiLogin ==
    /\ steps < MaxSteps
    /\ \E answer \in TokenAnswers :
         /\ browser' = Some(api_do_login(browser[1], answer))
         /\ call' = [op |-> "do_login", raised |-> "", url |-> "token",
                     grant_type |-> GrantType(browser[1]),
                     headers |-> build_request(browser[1], "token"),
                     browser |-> browser[1]]
    /\ steps' = steps + 1
    /\ UNCHANGED <<token, number, input, ajax, doc, formid, scriptmanagerid>>

\* browser.build_request(url)
ApiRequest ==
    /\ steps < MaxSteps
    /\ \E url \in {"token", "other"} :
         call' = [op |-> "build_request", raised |-> "", url |-> url,
                  grant_type |-> "",
                  headers |-> build_request(browser[1], url),
                  browser |-> browser[1]]
    /\ steps' = steps + 1
    /\ UNCHANGED <<browser, token, number, input, ajax, doc, formid,
                   scriptmanagerid>>

\* time passes
Tick ==
    /\ browser[1].utcnow < MaxClock
    /\ browser' = Some([browser[1] EXCEPT !.utcnow = @ + 1])
    /\ UNCHANGED <<call, steps, token, number, input, ajax, doc, formid,
                   scriptmanagerid>>

NextApi == ApiLogin \/ ApiRequest \/ Tick

SpecApi == InitApi /\ [][NextApi]_vars

(***************************************************************************)
(* Properties of the parser (SpecParse) and of the number reader           *)
(* (SpecNum).                                                              *)
(***************************************************************************)

Parsed == ajax # None
Outcome == ajax[1]
IsResponse == Parsed /\ Outcome.kind = "response"
IsParsingError == Parsed /\ Outcome.kind = "_MicrosoftAjaxResponseParsingError"

AllWellFormed(recs) == \A i \in 1..Len(recs) : WellFormed(recs[i])

\* the indices of the records of a type, and the first and last of a set
IndicesOf(recs, type) == {i \in 1..Len(recs) : recs[i].type = type}
FirstOf(S) == CHOOSE i \in S : \A j \in S : i <= j
LastOf(S) == CHOOSE i \in S : \A j \in S : i >= j

\* C3: every parse ends in a response or in the framing error
\* (_MicrosoftAjaxResponseParsingError); no other exception escapes fromtext.
C3_OnlyFramingErrors ==
    Parsed => Outcome.kind \in {"response", "_MicrosoftAjaxResponseParsingError"}

\* the value a record carries for its singleton field
VersionValue(rec) == PyFloat(rec.content).val
ErrorValue(rec) == <<parseinvariantnumber(rec.name).val, rec.content>>
\* the URL of the pageRedirect record i, decoded when the version read last
\* before it is 4 or above
RedirectValue(recs, i) ==
    LET before == {j \in IndicesOf(recs, T.version) : j < i}
    IN  IF before # {} /\ AtLeast4(VersionValue(recs[LastOf(before)]))
        THEN unquote(recs[i].content)
        ELSE recs[i].content

\* the singleton field of a type, taken from the record that pick chooses
\* among the records of that type
SingletonFrom(recs, type, pick(_), value(_)) ==
    IF IndicesOf(recs, type) = {} THEN None
    ELSE Some(value(pick(IndicesOf(recs, type))))

AfterHeader(in, i) ==
    in.recs[i].content \o in.recs[i].term
        \o WireAll(SubSeq(in.recs, i + 1, Len(in.recs))) \o in.tail

\* the records before record i are records of the grammar and were parsed
ParsedBefore(in, i) ==
    /\ AllWellFormed(SubSeq(in.recs, 1, i - 1))
    /\ fromtext(WireAll(SubSeq(in.recs, 1, i - 1))).kind = "response"

\* record i has its three header fields and announces more characters than
\* the stream still holds
Truncated(in, i) ==
    LET p == in.recs[i]
    IN  /\ PyInt(p.len, 10).ok
        /\ PyInt(p.len, 10).val > Len(AfterHeader(in, i))

\* the content of record i is followed by a character that is not a separator
BadlyEnded(in, i) ==
    LET p == in.recs[i]
        n == PyInt(p.len, 10).val
    IN  /\ PyInt(p.len, 10).ok
        /\ n >= 0
        /\ n < Len(AfterHeader(in, i))
        /\ AfterHeader(in, i)[n + 1] # "|"

\* C5: a record that announces more characters than remain, or whose content
\* is followed by something else than a separator, makes the parse fail with
\* the framing error, whatever its type and the records parsed before it.
C5_TruncatedIsFramingError ==
    Parsed =>
        \A i \in 1..Len(input.recs) :
            (ParsedBefore(input, i) /\ (Truncated(input, i) \/ BadlyEnded(input, i)))
                => IsParsingError

\* a truncated record was read after another record had been parsed
C5_Witness ==
    /\ Parsed
    /\ Len(input.recs) = 2
    /\ ParsedBefore(input, 2)
    /\ Truncated(input, 2)
    /\ input.recs[2].content # <<>>

\* C6: line breaks after the last complete record change nothing: the stream
\* parses exactly when the stream without them does, to the same response;
\* the empty stream and a stream of line breaks give the empty response.
C6_TrailingLineBreaks ==
    (Parsed /\ AllWellFormed(input.recs) /\ input.tail \in LineBreakTails) =>
        /\ Outcome = fromtext(WireAll(input.recs))
        /\ input.recs = <<>> => Outcome = Response(EmptyResponse)

\* records followed by a carriage return and a line feed were parsed
C6_Witness ==
    /\ IsResponse
    /\ AllWellFormed(input.recs)
    /\ input.recs # <<>>
    /\ input.tail = <<"\r", "\n">>

\* what a record says: its type, name and content
Said(rec) == <<rec.type, rec.name, rec.content>>
SaidAll(recs) == [i \in 1..Len(recs) |-> Said(recs[i])]

RECURSIVE NodesOf(_, _)
\* the <<name, content>> of the records of a type, in stream order
NodesOf(recs, type) ==
    IF recs = <<>> THEN <<>>
    ELSE IF Head(recs).type = type
         THEN <<<<Head(recs).name, Head(recs).content>>>> \o NodesOf(Tail(recs), type)
         ELSE NodesOf(Tail(recs), type)

C8_NeverRaises ==
    number # None =>
        LET x == Strip(token)
            hex == PyInt(PyFrom(x, 2), 16)
            isHex == PySlice(x, 0, 2) = <<"0","x">> /\ hex.ok
        IN  /\ number[1].raises = ""
            /\ x = <<"+","i","n","f","i","n","i","t","y">>
                  => number[1].val = Infinity(FALSE)
            /\ x = <<"-","i","n","f","i","n","i","t","y">>
                  => number[1].val = Infinity(TRUE)
            /\ x = <<"0","x","1","F">> => number[1].val = Finite(FALSE, 31, 0, "int")
            /\ (~isHex /\ ~PyFloat(x).ok) => number[1].val = NaN

(***************************************************************************)
(* Properties of the page (Spec).                                          *)
(***************************************************************************)

DictGet(d, k) == d[CHOOSE i \in 1..Len(d) : d[i][1] = k][2]
Range(s) == {s[i] : i \in 1..Len(s)}

Before == call.before.doc
Reply == call.args.reply

\* a postback whose request was sent and whose reply parsed to a response
Answered ==
    /\ call.op = "postback"
    /\ call.request # None
    /\ call.args.arrives
    /\ fromtext(WireAll(Reply)).kind = "response"

Carries(recs, type) == \E i \in 1..Len(recs) : recs[i].type = type

\* the document but for the element at path p and what is below it
Around(root, p) == ReplaceAt(root, p, NewElement(""))

\* C1: a postback whose parsed reply carries an error record raises the
\* server error (BrowserHTTPError), with or without a pageRedirect record
\* before or after it and whatever the error code; and a postback that raises
\* the server error or the redirect leaves the page (document, _formid,
\* _scriptmanagerid) as it was before the call.
C1_ErrorBeforeRedirect ==
    /\ call.op = "postback" /\ Carries(Reply, T.error) /\ Answered
       => call.raised = "BrowserHTTPError"
    /\ /\ call.op = "postback"
       /\ call.raised \in {"BrowserHTTPError", "BrowserRedirect"}
       => Page = call.before

\* C1: the reply holds a pageRedirect record and then an error record of
\* code 0; the server error is raised and the page is as before
C1_Witness ==
    /\ Answered
    /\ Reply = <<Redirect, ErrorZero>>
    /\ call.raised = "BrowserHTTPError"
    /\ Page = call.before

\* a reply of one updatePanel record and nothing else that touches the page
OnePanel ==
    /\ call.op = "postback"
    /\ Len(Reply) = 1
    /\ Reply[1].type = T.updatePanel
    /\ Answered

\* the element the panel names is the only one of its identifier (and, when
\* blank content counts, whatever the content)
PanelEffect(blankCounts) ==
    OnePanel =>
      /\ call.raised = ""
      /\ IF /\ Len(ByAttr(Before, "id", Join(Reply[1].name))) = 1
            /\ blankCounts \/ Strip(Reply[1].content) # <<>>
         THEN LET p == ByAttr(Before, "id", Join(Reply[1].name))[1]
              IN  /\ NodeAt(doc, p).kids = parse_html(Reply[1].content).kids
                  /\ NodeAt(doc, p).text = parse_html(Reply[1].content).text
                  /\ NodeAt(doc, p).tag = NodeAt(Before, p).tag
                  /\ NodeAt(doc, p).attrib = NodeAt(Before, p).attrib
                  /\ NodeAt(doc, p).tail = NodeAt(Before, p).tail
                  /\ Around(doc, p) = Around(Before, p)
         ELSE doc = Before

\* C2 as stated: whenever exactly one element has the identifier of an
\* updatePanel record, its children are replaced by the parsed content and
\* nothing else changes; with no or several such elements nothing changes
\* and the postback returns.
C2_PanelReplaced == PanelEffect(TRUE)

\* C2 amended: the same when the content is not blank; a record whose
\* content is empty or white space changes nothing, like a record naming no
\* or several elements.
C2_PanelReplacedUnlessBlank == PanelEffect(FALSE)

\* C2: the panel p, which had children, holds the one element of the content
C2_Witness ==
    /\ OnePanel
    /\ Reply[1] = Panel(<<"p">>, ItalicThenText)
    /\ Len(ByAttr(Before, "id", "p")) = 1
    /\ NodeAt(Before, ByAttr(Before, "id", "p")[1]).kids # <<>>
    /\ NodeAt(doc, ByAttr(Before, "id", "p")[1]).kids
         = <<Element("i", NoAttrs, "n", <<>>, "z")>>

\* the active form of a document, and the values it sends
FormOf(root) == Forms(root, formid)[1]
DataOf(root) == request(root, formid, "", "", None).request[1].data

NamedInForm(root, name) ==
    \E p \in Range(Within(root, FormOf(root))) :
        Get(NodeAt(root, p), "name") = Some(name)

\* C9: after page[key] = value on a page whose active form holds no control
\* named key, the last child of the active form is a hidden input of that
\* name and value, the request built from the page carries key = value, and
\* the document outside the active form is as before; the same holds of the
\* name and content of a hiddenField record applied by a postback.
C9_HiddenInputAppended ==
    /\ /\ call.op = "setitem"
       /\ call.raised = ""
       /\ ~NamedInForm(Before, call.args.key)
       => /\ NodeAt(doc, FormOf(doc)).kids
               = Append(NodeAt(Before, FormOf(Before)).kids,
                        HiddenField(call.args.key, call.args.value))
          /\ DictHas(DataOf(doc), Some(call.args.key))
          /\ DictGet(DataOf(doc), Some(call.args.key)) = Some(call.args.value)
          /\ Around(doc, FormOf(Before)) = Around(Before, FormOf(Before))
    /\ /\ Answered
       /\ call.raised = ""
       /\ Len(Reply) = 1
       /\ Reply[1].type = T.hiddenField
       /\ ~NamedInForm(Before, Join(Reply[1].name))
       => /\ DictHas(DataOf(doc), Some(Join(Reply[1].name)))
          /\ DictGet(DataOf(doc), Some(Join(Reply[1].name)))
               = Some(Join(Reply[1].content))
          /\ Around(doc, FormOf(Before)) = Around(Before, FormOf(Before))

\* the options of a select that carry the selected marker
Selected(root, select) ==
    {i \in 1..Len(Options(root, select)) :
        HasAttr(NodeAt(root, Options(root, select)[i]), "selected")}

Selects(root) ==
    {p \in Range(Everywhere(root)) : NodeAt(root, p).tag = "select"}

\* C10: after page[key] = value where the control named key is a select,
\* exactly one option of that select is selected and its value is value; and
\* at any time every select has at most one selected option.
C10_OneSelectedOption ==
    /\ /\ call.op = "setitem"
       /\ call.raised = ""
       /\ ByAttr(Before, "name", call.args.key) # <<>>
       /\ NodeAt(Before, ByAttr(Before, "name", call.args.key)[1]).tag = "select"
       => LET s == ByAttr(Before, "name", call.args.key)[1]
          IN  /\ Cardinality(Selected(doc, s)) = 1
              /\ \A i \in Selected(doc, s) :
                    Get(NodeAt(doc, Options(doc, s)[i]), "value")
                        = Some(call.args.value)
    /\ \A s \in Selects(doc) : Cardinality(Selected(doc, s)) <= 1

\* the first element of that name, which page[key] = value works on
Target(root, name) == ByAttr(root, "name", name)[1]

IsCheckable(e) ==
    e.tag = "input" /\ Get(e, "type") \in {Some("checkbox"), Some("radio")}

\* the elements that carry the checked marker
Checked(root) ==
    {p \in Range(Everywhere(root)) : HasAttr(NodeAt(root, p), "checked")}

\* C11: page[key] = value on a checkbox or radio control returns; with a
\* non-empty value the control carries the checked marker afterwards and the
\* marker of every other control is as before; with the empty value the
\* control carries no checked marker afterwards, checked before or not.
C11_CheckedFollowsValue ==
    /\ call.op = "setitem"
    /\ ByAttr(Before, "name", call.args.key) # <<>>
    /\ IsCheckable(NodeAt(Before, Target(Before, call.args.key)))
    => /\ call.raised = ""
       /\ IF call.args.value # ""
          THEN Checked(doc) = Checked(Before) \cup {Target(Before, call.args.key)}
          ELSE Checked(doc) = Checked(Before) \ {Target(Before, call.args.key)}

\* the data of the request that the last call built
Data == call.request[1].data

\* the controls of the active form that carry that name
NamedControls(root, name) ==
    {p \in Range(Controls(root, FormOf(root))) :
        Get(NodeAt(root, p), "name") = Some(name)}

\* a control of the active form that is named, is not disabled and is the
\* only control of its name
SoleEnabled(root, p) ==
    /\ p \in Range(Controls(root, FormOf(root)))
    /\ HasAttr(NodeAt(root, p), "name")
    /\ ~HasAttr(NodeAt(root, p), "disabled")
    /\ NamedControls(root, NodeAt(root, p).attrib.name) = {p}

\* the value of an option: its value attribute, its text without one
OptionValue(opt) == IF HasAttr(opt, "value") THEN opt.attrib.value ELSE opt.text

\* the option a select sends: the first one marked selected, the first one
\* when none is marked
Chosen(root, select) ==
    IF Selected(root, select) = {} THEN 1
    ELSE CHOOSE i \in Selected(root, select) :
             \A j \in Selected(root, select) : i <= j

\* C12: a request built from the page carries, for every select of the
\* active form that is named and not disabled, an entry of its name; when
\* the select has options, the value of the entry is the value of the option
\* marked selected, or of the first option when none is marked.
C12_SelectEntry ==
    call.op = "request" /\ call.raised = ""
    => \A p \in Range(Controls(Before, FormOf(Before))) :
          /\ NodeAt(Before, p).tag = "select"
          /\ SoleEnabled(Before, p)
          => /\ DictHas(Data, Some(NodeAt(Before, p).attrib.name))
             /\ Options(Before, p) # <<>>
                => DictGet(Data, Some(NodeAt(Before, p).attrib.name))
                     = Some(OptionValue(NodeAt(Before,
                           Options(Before, p)[Chosen(Before, p)])))

\* the names whose controls in the active form are radio controls, none of
\* them disabled, of which exactly one is checked
RadioGroups(root) ==
    {n \in {NodeAt(root, p).attrib.name :
                p \in {q \in Range(Controls(root, FormOf(root))) :
                          HasAttr(NodeAt(root, q), "name")}} :
        /\ \A p \in NamedControls(root, n) :
              /\ Get(NodeAt(root, p), "type") = Some("radio")
              /\ NodeAt(root, p).tag = "input"
              /\ ~HasAttr(NodeAt(root, p), "disabled")
        /\ Cardinality(NamedControls(root, n) \cap Checked(root)) = 1}

\* the value a checked control sends
CheckedValue(e) == IF HasAttr(e, "value") THEN e.attrib.value ELSE "on"

\* the entries of that key
Entries(d, k) == {i \in 1..Len(d) : d[i][1] = k}

\* C13: a request built from the page carries, for every group of radio
\* controls of one name of which exactly one is checked, exactly one entry
\* of that name, whose value is the value of the checked control, wherever
\* the checked control stands among the unchecked ones.
C13_RadioGroupEntry ==
    call.op = "request" /\ call.raised = ""
    => \A n \in RadioGroups(Before) :
          /\ Cardinality(Entries(Data, Some(n))) = 1
          /\ \A p \in NamedControls(Before, n) \cap Checked(Before) :
                DictGet(Data, Some(n)) = Some(CheckedValue(NodeAt(Before, p)))

\* what request() builds on the page before the call for the target and the
\* argument of the call
Built(button_id) ==
    request(Before, call.before.formid, call.args.target, call.args.argument,
            button_id).request[1]

Added == {call.before.scriptmanagerid, Some("__ASYNCPOST")}

\* C14: the request of a postback has the action and the method of the
\* request that request() builds, its entries but for the two added keys,
\* the entry of the page's _scriptmanagerid with the scriptmanager of the
\* caller, __ASYNCPOST = 'true' and the headers Cache-Control: no-cache and
\* X-MicrosoftAjax: Delta=true; a postback leaves the two identifiers of the
\* page as they were, and the document too when the reply holds no record;
\* the request of submit is the request that request() builds, without
\* headers, and after a submit that succeeded the page is a page newly
\* built.
C14_PostbackVersusSubmit ==
    /\ call.op = "postback" /\ call.request # None
       => /\ \A built \in {Built(None)} :
                /\ call.request[1].action = built.action
                /\ call.request[1].method = built.method
                /\ {e \in Range(built.data) : e[1] \notin Added}
                     = {e \in Range(Data) : e[1] \notin Added}
          /\ DictHas(Data, call.before.scriptmanagerid)
          /\ DictGet(Data, call.before.scriptmanagerid) = call.args.scriptmanager
          /\ DictHas(Data, Some("__ASYNCPOST"))
          /\ DictGet(Data, Some("__ASYNCPOST")) = Some("true")
          /\ <<"Cache-Control", "no-cache">> \in Range(call.request[1].headers)
          /\ <<"X-MicrosoftAjax", "Delta=true">>
                \in Range(call.request[1].headers)
    /\ call.op = "postback"
       => /\ formid = call.before.formid
          /\ scriptmanagerid = call.before.scriptmanagerid
          /\ Reply = <<>> => doc = Before
    /\ call.op = "submit" /\ call.request # None
       => /\ call.request[1] = Built(call.args.button_id)
          /\ call.request[1].headers = <<>>
    /\ call.op = "submit" /\ call.raised = "" => Page \in Pages

\* C14: a postback on the page whose script manager is sm sent sm = 'sm|t'
\* and the flag, and its reply was patched into the document of that page
C14_Witness ==
    /\ call.op = "postback"
    /\ call.raised = ""
    /\ call.before.scriptmanagerid = Some("sm")
    /\ DictGet(Data, Some("sm")) = Some("sm|t")
    /\ ~DictHas(Built(None).data, Some("__ASYNCPOST"))
    /\ doc # Before
    /\ Around(doc, ByAttr(Before, "id", "p")[1])
         = Around(Before, ByAttr(Before, "id", "p")[1])

\* the first form of the document
FirstForm(root) ==
    Everywhere(root)[CHOOSE i \in 1..Len(Everywhere(root)) :
                        /\ NodeAt(root, Everywhere(root)[i]).tag = "form"
                        /\ \A j \in 1..(i - 1) :
                              NodeAt(root, Everywhere(root)[j]).tag # "form"]

\* C15: a page newly built (the first page, or the page after a submit that
\* succeeded) has for _scriptmanagerid and _formid the two arguments that
\* the call in its script writes, between single or double quotes, and None
\* for both when its scripts make no such call, the active form being then
\* the first form of the document; page[key] = value, request and postback
\* leave both identifiers as they were.
C15_IdentifiersFromScript ==
    /\ call.op = "load" \/ (call.op = "submit" /\ call.raised = "")
       => \A content \in Contents :
             content.doc = doc
             => /\ scriptmanagerid = content.written.scriptmanagerid
                /\ formid = content.written.formid
                /\ content.scripts = <<>>
                   => /\ scriptmanagerid = None
                      /\ formid = None
                      /\ FormOf(doc) = FirstForm(doc)
    /\ call.op \in {"setitem", "request", "postback"}
       => /\ formid = call.before.formid
          /\ scriptmanagerid = call.before.scriptmanagerid

\* the last call is a postback that ended with the error that the server
\* reported, or with the failure of the transport
Failed ==
    /\ call.op = "postback"
    /\ call.raised \in {"BrowserHTTPError", "transport failure"}

\* C16 as stated: after a postback of a page that ended with the error of
\* the server or the failure of the transport, no postback and no submit on
\* that page succeeds.
C16_FaultedIsTerminal ==
    [][Failed => ~(call'.op \in {"postback", "submit"} /\ call'.raised = "")]_vars

\* C16: a postback that ended with the error of the server or the failure
\* of the transport has left the page (document and identifiers) as it was
\* before the call, and a postback or a submit that comes next works on
\* that very page: the page object keeps no trace of the failure.
C16_FailedPostbackKeepsPage ==
    [][Failed => /\ Page = call.before
                 /\ call'.op \in {"postback", "submit"}
                    => call'.before = call.before]_vars

\* C16: a postback has failed, another call may follow, and a postback on
\* the page as it is now, answered with a panel, succeeds and patches the
\* document
C16_Witness ==
    /\ Failed
    /\ Page = call.before
    /\ steps < MaxSteps
    /\ postback(doc, formid, scriptmanagerid, "t", "", Some("sm|t"),
                [arrives |-> TRUE,
                 text |-> WireAll(<<Panel(<<"p">>, <<"n","e","w">>)>>)]).raised
         = ""
    /\ postback(doc, formid, scriptmanagerid, "t", "", Some("sm|t"),
                [arrives |-> TRUE,
                 text |-> WireAll(<<Panel(<<"p">>, <<"n","e","w">>)>>)]).doc
         # doc

\* the intranet has rejected the login of the last call for that reason and
\* has said so
Rejected(verdict) ==
    /\ call.op = "check_login"
    /\ call.verdict = verdict
    /\ call.answer = Answer("login", Some(Wording(verdict)))

\* C17: check_login with a user the intranet knows and a password it
\* rejects as invalid raises an exception that is a BrowserIncorrectPassword
\* and whose message contains 'invalid password'.
C17_InvalidPassword ==
    Rejected("invalid password")
    => /\ "BrowserIncorrectPassword" \in Ancestors(call.raised)
       /\ Contains(call.message, <<"i","n","v","a","l","i","d"," ","p","a","s","s","w","o","r","d">>)

\* C17: the user 1 has logged in with the password w, which the intranet
\* has rejected, and the exception names the user and the password
C17_Witness ==
    /\ Rejected("invalid password")
    /\ DictGet(call.request[1].data, Some("login")) = Some("1")
    /\ DictGet(call.request[1].data, Some("password")) = Some("w")
    /\ call.raised = "IntranetInvalidPasswordError"
    /\ call.message
         = <<"i","n","v","a","l","i","d"," ","p","a","s","s","w","o","r","d">>
           \o <<" ","f","o","r"," ","u","s","e","r"," ","'","1","'",":"," ","'","w","'">>

\* C18: check_login as a user whom the intranet does not allow to log in
\* raises an exception that is a BrowserIncorrectPassword and whose message
\* contains 'unauthorized'.
C18_UnauthorizedUser ==
    Rejected("unauthorized")
    => /\ "BrowserIncorrectPassword" \in Ancestors(call.raised)
       /\ Contains(call.message, <<"u","n","a","u","t","h","o","r","i","z","e","d">>)

\* the controls of the active form of the page before the call
FormControls == Controls(Before, FormOf(Before))

\* what the loop of request has recorded after its first i controls
Recorded(i) ==
    Collect(Before, SubSeq(FormControls, 1, i), 1,
            [fields |-> <<>>, files |-> <<>>], call.args.button_id).fields

\* control i is a checkbox or a radio control that is named, not disabled
\* and not checked
Unchecked(i) ==
    /\ IsCheckable(NodeAt(Before, FormControls[i]))
    /\ HasAttr(NodeAt(Before, FormControls[i]), "name")
    /\ ~HasAttr(NodeAt(Before, FormControls[i]), "disabled")
    /\ ~HasAttr(NodeAt(Before, FormControls[i]), "checked")

\* C19 as stated: an unchecked checkbox or radio control leaves what the
\* request has recorded as it is, whether or not an entry of its name was
\* recorded before it.
C19_UncheckedContributesNothing ==
    call.op = "request" /\ call.raised = ""
    => \A i \in 1..Len(FormControls) :
          Unchecked(i) => Recorded(i) = Recorded(i - 1)

\* C19: an unchecked checkbox or radio control that is named and not
\* disabled leaves what the request has recorded as it is when an entry of
\* its name was recorded before it, and records its name with the value
\* None otherwise.
C19_UncheckedRecordsNone ==
    call.op = "request" /\ call.raised = ""
    => \A i \in 1..Len(FormControls) :
          Unchecked(i)
          => \A before \in {Recorded(i - 1)} :
                Recorded(i)
                  = IF DictHas(before,
                               Get(NodeAt(Before, FormControls[i]), "name"))
                    THEN before
                    ELSE Append(before,
                                <<Get(NodeAt(Before, FormControls[i]), "name"),
                                  None>>)

\* C19: the request of the form of controls of every kind holds b = None
\* for its unchecked checkbox b, and k = v for the text input k that an
\* unchecked checkbox k comes after
C19_Witness ==
    /\ call.op = "request"
    /\ call.raised = ""
    /\ \E i \in 1..Len(FormControls) :
          Unchecked(i) /\ ~DictHas(Recorded(i - 1), Some("b"))
                       /\ Get(NodeAt(Before, FormControls[i]), "name") = Some("b")
    /\ \E i \in 1..Len(FormControls) :
          Unchecked(i) /\ DictHas(Recorded(i - 1), Some("k"))
                       /\ Get(NodeAt(Before, FormControls[i]), "name") = Some("k")
    /\ DictGet(Data, Some("b")) = None
    /\ DictGet(Data, Some("k")) = Some("v")

\* the names whose entries request sets or resets itself
Forced ==
    {"__EVENTTARGET", "__EVENTARGUMENT", "__LASTFOCUS", "_eo_js_modules",
     "_eo_obj_inst"}

\* C20: a request built from the page carries, for every input of the
\* active form that is named, not disabled, the only control of its name
\* and of a kind other than checkbox, radio, file and submit (inputs
\* without type included), the entry of its name with its value attribute,
\* or with the empty string when it has none; the names that request sets
\* itself are left aside.
C20_TextLikeEntry ==
    call.op = "request" /\ call.raised = ""
    => \A p \in Range(FormControls) :
          /\ NodeAt(Before, p).tag = "input"
          /\ SoleEnabled(Before, p)
          /\ Get(NodeAt(Before, p), "type")
                \notin {Some("checkbox"), Some("radio"), Some("file"),
                        Some("submit")}
          /\ NodeAt(Before, p).attrib.name \notin Forced
          => /\ DictHas(Data, Some(NodeAt(Before, p).attrib.name))
             /\ DictGet(Data, Some(NodeAt(Before, p).attrib.name))
                  = IF HasAttr(NodeAt(Before, p), "value")
                    THEN Some(NodeAt(Before, p).attrib.value)
                    ELSE Some("")

\* the file inputs of the active form that are named and not disabled
FileInputs(root) ==
    {p \in Range(Controls(root, FormOf(root))) :
        /\ NodeAt(root, p).tag = "input"
        /\ Get(NodeAt(root, p), "type") = Some("file")
        /\ HasAttr(NodeAt(root, p), "name")
        /\ ~HasAttr(NodeAt(root, p), "disabled")}

\* C21: a request built from the page holds, for every file input of the
\* active form that is named and not disabled, a file entry of its name
\* whose file name is empty.
C21_FileInputIncluded ==
    call.op = "request" /\ call.raised = ""
    => \A p \in FileInputs(Before) :
          /\ DictHas(call.request[1].files, Get(NodeAt(Before, p), "name"))
          /\ DictGet(call.request[1].files, Get(NodeAt(Before, p), "name"))[1]
               = ""

\* C22: a control of the active form that carries the disabled attribute,
\* whatever its kind and whether checked or selected, adds no entry to the
\* request: when it is the only control of its name (the names that request
\* sets itself left aside), the request holds no entry of that name.
C22_DisabledContributesNothing ==
    call.op = "request" /\ call.raised = ""
    => \A p \in Range(FormControls) :
          /\ HasAttr(NodeAt(Before, p), "disabled")
          /\ HasAttr(NodeAt(Before, p), "name")
          /\ NamedControls(Before, NodeAt(Before, p).attrib.name) = {p}
          /\ NodeAt(Before, p).attrib.name \notin Forced
          => ~DictHas(Data, Some(NodeAt(Before, p).attrib.name))

\* C23: a request built from the page holds __EVENTTARGET = the target,
\* __EVENTARGUMENT = the argument and __LASTFOCUS = '' whatever a control of
\* one of these names gave; its entries _eo_js_modules and _eo_obj_inst are
\* empty when it has them, and it has none of a name that no control of the
\* active form carries.
C23_ForcedEntries ==
    call.op = "request" /\ call.raised = ""
    => /\ DictHas(Data, Some("__EVENTTARGET"))
       /\ DictGet(Data, Some("__EVENTTARGET")) = Some(call.args.target)
       /\ DictHas(Data, Some("__EVENTARGUMENT"))
       /\ DictGet(Data, Some("__EVENTARGUMENT")) = Some(call.args.argument)
       /\ DictHas(Data, Some("__LASTFOCUS"))
       /\ DictGet(Data, Some("__LASTFOCUS")) = Some("")
       /\ \A n \in {"_eo_js_modules", "_eo_obj_inst"} :
             /\ DictHas(Data, Some(n)) => DictGet(Data, Some(n)) = Some("")
             /\ NamedControls(Before, n) = {} => ~DictHas(Data, Some(n))
       /\ \A n \in Forced : Cardinality(Entries(Data, Some(n))) <= 1

\* C23: the form holds the hidden inputs __EVENTTARGET = old and
\* _eo_js_modules = mods and no control named _eo_obj_inst; the request
\* built for the target t holds __EVENTTARGET = t, _eo_js_modules = '' and
\* no entry _eo_obj_inst
C23_Witness ==
    /\ call.op = "request"
    /\ call.raised = ""
    /\ call.args.target = "t"
    /\ \E p \in NamedControls(Before, "__EVENTTARGET") :
          Get(NodeAt(Before, p), "value") = Some("old")
    /\ \E p \in NamedControls(Before, "_eo_js_modules") :
          Get(NodeAt(Before, p), "value") = Some("mods")
    /\ DictGet(Data, Some("__EVENTTARGET")) = Some("t")
    /\ DictGet(Data, Some("_eo_js_modules")) = Some("")
    /\ ~DictHas(Data, Some("_eo_obj_inst"))

\* the submit inputs of the active form that are named, not disabled and
\* the only controls of their names, the names that request sets itself left
\* aside
SubmitInputs(root) ==
    {p \in Range(Controls(root, FormOf(root))) :
        /\ NodeAt(root, p).tag = "input"
        /\ Get(NodeAt(root, p), "type") = Some("submit")
        /\ SoleEnabled(root, p)
        /\ NodeAt(root, p).attrib.name \notin Forced}

\* C24: a request built from the page holds the entry of a submit input if
\* and only if a button identifier is given and is the id of the input, and
\* the value of the entry is then the value attribute of the input, or the
\* empty string when it has none; the request of a postback holds the entry
\* of no submit input.
C24_SubmitOnlyIfTargeted ==
    /\ call.op = "request" /\ call.raised = ""
       => \A p \in SubmitInputs(Before) :
             /\ DictHas(Data, Get(NodeAt(Before, p), "name"))
                <=> /\ Truthy(call.args.button_id)
                    /\ Get(NodeAt(Before, p), "id") = call.args.button_id
             /\ DictHas(Data, Get(NodeAt(Before, p), "name"))
                => DictGet(Data, Get(NodeAt(Before, p), "name"))
                     = IF HasAttr(NodeAt(Before, p), "value")
                       THEN Get(NodeAt(Before, p), "value")
                       ELSE Some("")
    /\ call.op = "postback" /\ call.request # None
       => \A p \in SubmitInputs(Before) :
             ~DictHas(Data, Get(NodeAt(Before, p), "name"))

\* C24: the form holds the submit inputs go (id b, value Go) and no (id b2);
\* the request built for the button b holds go = Go and no entry no
C24_Witness ==
    /\ call.op = "request"
    /\ call.raised = ""
    /\ call.args.button_id = Some("b")
    /\ Cardinality(SubmitInputs(Before)) = 2
    /\ DictHas(Data, Some("go"))
    /\ DictGet(Data, Some("go")) = Some("Go")
    /\ ~DictHas(Data, Some("no"))

(***************************************************************************)
(* More properties of the parser (SpecParse).                              *)
(***************************************************************************)

\* the fragment types that fromstream knows
KnownTypes == {T[f] : f \in DOMAIN T}

\* the outcome of the parse of the first n records of the input
ParsedUpTo(n) == fromtext(WireAll(SubSeq(input.recs, 1, n)))

\* record k is read: it is well formed, like the records before it, and the
\* parse of the records before it ends in a response
Reached(k) ==
    /\ k \in 1..Len(input.recs)
    /\ AllWellFormed(SubSeq(input.recs, 1, k))
    /\ ParsedUpTo(k - 1).kind = "response"

\* C25: when the record read at index k has a type that is not a known
\* fragment type, the parse ends in the framing error whose position is
\* that of the first character of the type field of that record, counted
\* from 1 at the start of the stream.
C25_UnknownTypePosition ==
    Parsed
    => \A k \in 1..Len(input.recs) :
          input.recs[k].type \notin KnownTypes /\ Reached(k)
          => /\ IsParsingError
             /\ Outcome.column
                  = Len(WireAll(SubSeq(input.recs, 1, k - 1)))
                    + Len(input.recs[k].len) + 2
             /\ Outcome.description = "unknown ajax fragment type"

\* C25: the second record of the stream has the unknown type zz, and the
\* error points past the first record and the length field of the second
C25_Witness ==
    /\ IsParsingError
    /\ Len(input.recs) = 2
    /\ Reached(2)
    /\ input.recs[1] = Rec(T.hiddenField, <<"k">>, <<"v">>)
    /\ input.recs[2].type = <<"z","z">>
    /\ Outcome.column = Len(Wire(input.recs[1])) + 3

\* C26: a fallbackScript record that is read adds its content to the paths
\* of the last scriptBlock record read before it; when none was read, it
\* changes nothing and the parse goes on with the next record.
C26_FallbackScriptWithoutBlock ==
    Parsed
    => \A k \in 1..Len(input.recs) :
          input.recs[k].type = T.fallbackScript /\ Reached(k)
          => /\ ParsedUpTo(k).kind = "response"
             /\ ParsedUpTo(k).resp
                  = IF ParsedUpTo(k - 1).resp.scriptBlockNodes = <<>>
                    THEN ParsedUpTo(k - 1).resp
                    ELSE [ParsedUpTo(k - 1).resp EXCEPT
                             !.scriptBlockNodes[
                                 Len(ParsedUpTo(k - 1).resp.scriptBlockNodes)][2] =
                                   Append(@, input.recs[k].content)]

\* the first pageRedirect record of the input, and the version records
\* before it
FirstRedirect == FirstOf(IndicesOf(input.recs, T.pageRedirect))
VersionsBefore(i) == {j \in IndicesOf(input.recs, T.version) : j < i}

\* a stream of well formed records that parses and holds a pageRedirect
\* record
Redirected ==
    /\ IsResponse
    /\ AllWellFormed(input.recs)
    /\ IndicesOf(input.recs, T.pageRedirect) # {}

\* C29 as stated: the URL stored is the content of the first pageRedirect
\* record, percent-decoded if and only if some version record before it has
\* a value of 4 or above.
C29_AnyEarlierVersionDecides ==
    Redirected
    => Outcome.resp.redirectUrl
         = Some(IF \E j \in VersionsBefore(FirstRedirect) :
                       AtLeast4(VersionValue(input.recs[j]))
                THEN unquote(input.recs[FirstRedirect].content)
                ELSE input.recs[FirstRedirect].content)

\* C29: the URL stored is the content of the first pageRedirect record,
\* percent-decoded if and only if the last version record before it has a
\* value of 4 or above, and as written otherwise (no version record before
\* it included); the version records after it change nothing.
C29_LastEarlierVersionDecides ==
    Redirected
    => Outcome.resp.redirectUrl
         = Some(IF /\ VersionsBefore(FirstRedirect) # {}
                   /\ AtLeast4(VersionValue(
                          input.recs[LastOf(VersionsBefore(FirstRedirect))]))
                THEN unquote(input.recs[FirstRedirect].content)
                ELSE input.recs[FirstRedirect].content)

\* C29: the versions 4 and then 3.5 come before the pageRedirect record
\* %41, and the URL stored is %41 as written
C29_Witness ==
    /\ Redirected
    /\ input.recs = <<Rec(T.version, <<>>, <<"4">>),
                      Rec(T.version, <<>>, <<"3",".","5">>),
                      Rec(T.pageRedirect, <<>>, <<"%","4","1">>)>>
    /\ Outcome.resp.redirectUrl = Some(<<"%","4","1">>)

(***************************************************************************)
(* More properties of the page (Spec).                                     *)
(***************************************************************************)

\* a postback that has patched the page with a reply of well formed records
Patched ==
    /\ call.op = "postback"
    /\ call.raised = ""
    /\ call.args.arrives
    /\ AllWellFormed(Reply)

\* the hiddenField records of the reply that are the last ones of their
\* names
LastHidden ==
    {i \in IndicesOf(Reply, T.hiddenField) :
        \A j \in IndicesOf(Reply, T.hiddenField) :
            Reply[j].name = Reply[i].name => j <= i}

\* the element holds the value: a select by its selected option, a checkbox
\* or a radio control by its mark, which it carries unless the value is
\* empty, any other element by its value attribute
Holds(root, p, value) ==
    IF NodeAt(root, p).tag = "select"
    THEN \E o \in Range(Options(root, p)) :
            /\ Get(NodeAt(root, o), "value") = Some(value)
            /\ Get(NodeAt(root, o), "selected") = Some("selected")
    ELSE IF IsCheckable(NodeAt(root, p))
         THEN value # "" <=> HasAttr(NodeAt(root, p), "checked")
         ELSE Get(NodeAt(root, p), "value") = Some(value)

\* C27: after a postback that has patched the page, the document is the one
\* before the call with the updatePanel records of the reply applied in
\* stream order and then its hiddenField records applied in stream order,
\* wherever the records of the two types stand in the stream; and the
\* element of the name of a hiddenField record holds the content of the last
\* record of that name, inside a panel that the reply has replaced or not.
C27_PanelsBeforeHiddenFields ==
    Patched /\ IndicesOf(Reply, T.hiddenField) # {}
    => /\ doc = SetHiddenFields(
                    Done(UpdatePanels(Before, NodesOf(Reply, T.updatePanel), 1)),
                    formid, NodesOf(Reply, T.hiddenField), 1).doc
       /\ \A i \in LastHidden :
             /\ ByAttr(doc, "name", Join(Reply[i].name)) # <<>>
             /\ Holds(doc, Target(doc, Join(Reply[i].name)),
                      Join(Reply[i].content))

\* C27: the reply holds the hiddenField record t = 3 and after it the
\* updatePanel record that replaces the panel p, in which the input t stood
\* with the value 1, by an input t of value 2; the input t is in the panel
\* and holds 3
C27_Witness ==
    /\ Patched
    /\ Reply = <<Hidden(<<"t">>, <<"3">>), Panel(<<"p">>, InputT)>>
    /\ Len(ByAttr(Before, "id", "p")) = 1
    /\ ByAttr(Before, "name", "t") # <<>>
    /\ Get(NodeAt(Before, Target(Before, "t")), "value") = Some("1")
    /\ NodeAt(doc, ByAttr(doc, "id", "p")[1]).kids
         = <<E("input", [name |-> "t", value |-> "3"], "", <<>>)>>

\* an input of the kinds that send their value attribute, not disabled
TextLike(e) ==
    /\ e.tag = "input"
    /\ Get(e, "type") \in {Some("text"), Some("hidden"), Some("password")}
    /\ ~HasAttr(e, "disabled")

\* C28: after page[key] = value, where key is not a name that request sets
\* itself and the controls of the active form that carry the name key, if
\* any, are text-like inputs that are not disabled, the request built from
\* the page carries key = value, whatever other elements of the document
\* carry that name.
C28_SetThenBuild ==
    /\ call.op = "setitem"
    /\ call.raised = ""
    /\ call.args.key \notin Forced
    /\ \A p \in NamedControls(Before, call.args.key) :
          TextLike(NodeAt(Before, p))
    => /\ DictHas(DataOf(doc), Some(call.args.key))
       /\ DictGet(DataOf(doc), Some(call.args.key)) = Some(call.args.value)

(***************************************************************************)
(* Properties of the browser of the API (SpecApi).                         *)
(***************************************************************************)

\* the browser holds an access token, and the token has expired: the clock
\* is past its expiry
HoldsToken(b) == b.access_token # None
Expired(b) ==
    b.access_token_expires_at # None /\ b.utcnow > b.access_token_expires_at[1]
Unexpired(b) ==
    b.access_token_expires_at = None \/ b.utcnow < b.access_token_expires_at[1]

====
